---------------------------- MODULE Spec2Model ----------------------------
(***************************************************************************)
(* Model of the output-finalization pipeline of ImproveLLMStructure:       *)
(* output_parser.py (cleanup, JSON extraction, per-format parse),          *)
(* format_transformer.py (renderers), validator.py, error_corrector.py     *)
(* (the bounded correction loop) and the part of app.py that drives them.  *)
(*                                                                         *)
(* A text is a sequence of lexemes.  A lexeme is either one punctuation    *)
(* or whitespace character, or a whole word (a maximal run of \w           *)
(* characters).  Every character the source inspects individually (braces, *)
(* brackets, quotes, backticks, whitespace) is a lexeme of its own, so a   *)
(* scan of the lexemes and a scan of the characters see the same thing.    *)
(***************************************************************************)
EXTENDS Integers, Sequences, FiniteSets, TLC

VARIABLES
    fn,       \* which pure function the function specifications exercise
    fin,      \* its input
    fstage,   \* how many times it has been applied
    fout,     \* its result
    fout2,    \* the result of applying it to its own result
    pc,                          \* where interpret (app.py) stands
    context,                     \* what handle_user_request returned
    raw_llm_response,            \* what the first send_prompt_to_llm returned
    universal_representation,
    transformed_output,
    expected_structure,
    validation_result,
    error_corrector_output,
    corrector_transformed_output, \* correct_output's transformed_output
    corrector_validation_result,  \* correct_output's validation_result
    last_error,
    attempt,
    prompt,                      \* the prompt of the last correction call
    response,                    \* the HTTP response of interpret
    learning_data,               \* Learner.learning_data
    calls,                       \* history: calls of send_prompt_to_llm
    log,                         \* history: one entry per correction attempt
    raised,                      \* history: the exception raised, and where
    clock,                       \* datetime.now(), in whole seconds
    log_dir,                     \* the files of Learner.log_dir, by time stamp
    written                      \* history: the record of each request as
                                 \* learn_from_interaction was given it

fnVars == <<fn, fin, fstage, fout, fout2>>

appVars ==
    <<pc, context, raw_llm_response, universal_representation,
      transformed_output, expected_structure, validation_result,
      error_corrector_output, corrector_transformed_output,
      corrector_validation_result, last_error, attempt, prompt, response,
      learning_data, calls, log, raised>>

sinkVars == <<clock, log_dir, written>>

vars == <<fnVars, appVars, sinkVars>>

-----------------------------------------------------------------------------
(* Lexemes and character classes *)

\* str.isspace / the regex class \s
IsSpace(c) == c \in {" ", "\n", "\t"}

\* the backtick character (a string of the modelling language cannot hold it)
Backtick == "BACKTICK"

\* one punctuation character per lexeme
Punct ==
    {"{", "}", "[", "]", "\"", ":", ",", Backtick, "'", "<", ">", "//", "/", "&",
     ";", "#", "="}

\* the regex class \w: every lexeme that is neither whitespace nor punctuation
IsWord(c) == ~IsSpace(c) /\ c \notin Punct

\* str.lower on one lexeme (only the words with capitals that texts here use)
Lower(c) ==
    CASE c = "I" -> "i"
      [] c = "AI" -> "ai"
      [] c = "As" -> "as"
      [] c = "Array" -> "array"
      [] c = "Object" -> "object"
      [] c = "JSON" -> "json"
      [] OTHER -> c

\* text[i:j+1] of Python, 1-based and inclusive; empty when i > j
Slice(t, i, j) == IF i > j THEN <<>> ELSE SubSeq(t, i, j)

RECURSIVE LStripFrom(_, _)
LStripFrom(t, i) ==
    IF i > Len(t) THEN i
    ELSE IF IsSpace(t[i]) THEN LStripFrom(t, i + 1) ELSE i

RECURSIVE RStripFrom(_, _)
RStripFrom(t, j) ==
    IF j < 1 THEN j
    ELSE IF IsSpace(t[j]) THEN RStripFrom(t, j - 1) ELSE j

\* str.strip()
Strip(t) == Slice(t, LStripFrom(t, 1), RStripFrom(t, Len(t)))

\* whether the lexemes of pat stand in t at position i (case-sensitive)
StartsAt(t, i, pat) ==
    /\ i + Len(pat) - 1 <= Len(t)
    /\ \A k \in 1..Len(pat) : t[i + k - 1] = pat[k]

\* the same under re.IGNORECASE; pat is written in lower case
StartsAtNoCase(t, i, pat) ==
    /\ i + Len(pat) - 1 <= Len(t)
    /\ \A k \in 1..Len(pat) : Lower(t[i + k - 1]) = pat[k]

\* str.startswith
StartsWith(t, pat) == StartsAt(t, 1, pat)

RECURSIVE SkipWords(_, _)
SkipWords(t, i) ==
    IF i <= Len(t) /\ IsWord(t[i]) THEN SkipWords(t, i + 1) ELSE i

RECURSIVE SkipSpaces(_, _)
SkipSpaces(t, i) ==
    IF i <= Len(t) /\ IsSpace(t[i]) THEN SkipSpaces(t, i + 1) ELSE i

Fence == <<Backtick, Backtick, Backtick>>

\* re.sub(r"<fence>(?:\w+)?\s*", "", text): leftmost matches, each taking the
\* three backticks, a following word if any, and the whitespace after it
RECURSIVE RemoveFenceOpeners(_, _)
RemoveFenceOpeners(t, i) ==
    IF i > Len(t) THEN <<>>
    ELSE IF StartsAt(t, i, Fence)
         THEN RemoveFenceOpeners(t, SkipSpaces(t, SkipWords(t, i + 3)))
         ELSE <<t[i]>> \o RemoveFenceOpeners(t, i + 1)

\* text.replace(pat, ""): leftmost non-overlapping occurrences removed
RECURSIVE RemoveAll(_, _, _)
RemoveAll(t, i, pat) ==
    IF i > Len(t) THEN <<>>
    ELSE IF StartsAt(t, i, pat) THEN RemoveAll(t, i + Len(pat), pat)
         ELSE <<t[i]>> \o RemoveAll(t, i + 1, pat)

\* _remove_triple_backticks
RemoveTripleBackticks(t) == RemoveAll(RemoveFenceOpeners(t, 1), 1, Fence)

-----------------------------------------------------------------------------
(* _cleanup_common_artifacts *)

ResultPrefix == <<"{", "\"", "result", "\"", ":">>

\* re.sub(r'^\{"result":\s*(.+)\}\s*$', r'\1', s, flags=re.DOTALL) on a
\* stripped s.  s has no trailing whitespace, so the final \s* is empty and
\* the closing brace is the last lexeme; \s* is greedy but gives back one
\* whitespace character when the group would otherwise be empty.
UnwrapResult(s) ==
    LET n == Len(s)
        from == Len(ResultPrefix) + 1
        body == SkipSpaces(s, from)
    IN  IF /\ StartsWith(s, ResultPrefix)
           /\ n > from
           /\ s[n] = "}"
        THEN IF body <= n - 1 THEN Slice(s, body, n - 1)
             ELSE Slice(s, n - 1, n - 1)
        ELSE s

\* "As an AI language model,? (I )?(can('?t)?|am\sable\s(to)?)": the length
\* of the match at i, 0 when there is none
AsAnAI == <<"as", " ", "an", " ", "ai", " ", "language", " ", "model">>

DisclaimerOneLen(t, i) ==
    IF ~StartsAtNoCase(t, i, AsAnAI) THEN 0
    ELSE
      LET a == i + Len(AsAnAI)
          b == IF StartsAt(t, a, <<",">>) THEN a + 1 ELSE a
          c == b + 1
          d == IF StartsAtNoCase(t, c, <<"i", " ">>) THEN c + 2 ELSE c
          tail(p) ==
              IF StartsAtNoCase(t, p, <<"can", "'", "t">>) THEN 3
              ELSE IF StartsAtNoCase(t, p, <<"can">>) THEN 1
              ELSE IF /\ StartsAtNoCase(t, p, <<"am">>)
                      /\ p + 3 <= Len(t)
                      /\ IsSpace(t[p + 1])
                      /\ Lower(t[p + 2]) = "able"
                      /\ IsSpace(t[p + 3])
                   THEN IF StartsAtNoCase(t, p + 4, <<"to">>) THEN 5 ELSE 4
              ELSE 0
      IN  IF ~StartsAt(t, b, <<" ">>) THEN 0
          ELSE IF tail(d) > 0 THEN (d - i) + tail(d)
          ELSE IF tail(c) > 0 THEN (c - i) + tail(c)
          ELSE 0

RECURSIVE RemoveDisclaimerOne(_, _)
RemoveDisclaimerOne(t, i) ==
    IF i > Len(t) THEN <<>>
    ELSE IF DisclaimerOneLen(t, i) > 0
         THEN RemoveDisclaimerOne(t, i + DisclaimerOneLen(t, i))
         ELSE <<t[i]>> \o RemoveDisclaimerOne(t, i + 1)

RECURSIVE RemoveAllNoCase(_, _, _)
RemoveAllNoCase(t, i, pat) ==
    IF i > Len(t) THEN <<>>
    ELSE IF StartsAtNoCase(t, i, pat) THEN RemoveAllNoCase(t, i + Len(pat), pat)
         ELSE <<t[i]>> \o RemoveAllNoCase(t, i + 1, pat)

\* the loop over the three disclaimer patterns, in the order of the list;
\* the last two are "I am an AI model" and "I'm just an AI model", matched
\* ignoring case
RemoveDisclaimers(t) ==
    LET IAmAnAI == <<"i", " ", "am", " ", "an", " ", "ai", " ", "model">>
        ImJustAnAI ==
            <<"i", "'", "m", " ", "just", " ", "an", " ", "ai", " ", "model">>
    IN  RemoveAllNoCase(RemoveAllNoCase(RemoveDisclaimerOne(t, 1), 1, IAmAnAI),
                        1, ImJustAnAI)

\* _cleanup_common_artifacts(text)
Cleanup(text) ==
    LET nofence == RemoveAll(RemoveFenceOpeners(text, 1), 1, Fence)
        unwrapped == UnwrapResult(Strip(nofence))
    IN  Strip(RemoveDisclaimers(unwrapped))

-----------------------------------------------------------------------------
(* json.loads and json.dumps *)

\* Python's None, where a text or a parsed value is expected
None == <<"NONE">>

\* the whitespace of the JSON grammar
RECURSIVE SkipJsonWs(_, _)
SkipJsonWs(t, i) ==
    IF i <= Len(t) /\ t[i] \in {" ", "\n", "\t"} THEN SkipJsonWs(t, i + 1) ELSE i

JsonNumbers == {"0", "1", "2", "3", "42"}

Failed == [ok |-> FALSE, next |-> 0, val |-> <<>>]

\* the closing quote of the string whose opening quote is at i - 1, 0 when the
\* string is not terminated on its line (a control character ends it)
RECURSIVE StringEnd(_, _)
StringEnd(t, i) ==
    IF i > Len(t) \/ t[i] = "\n" THEN 0
    ELSE IF t[i] = "\"" THEN i ELSE StringEnd(t, i + 1)

\* dict semantics: a repeated key keeps its first place and its last value
RECURSIVE PutMember(_, _, _)
PutMember(ms, k, v) ==
    IF ms = <<>> THEN << <<k, v>> >>
    ELSE IF Head(ms)[1] = k THEN << <<k, v>> >> \o Tail(ms)
         ELSE <<Head(ms)>> \o PutMember(Tail(ms), k, v)

RECURSIVE JoinMembers(_)
JoinMembers(ms) ==
    IF ms = <<>> THEN <<>>
    ELSE Head(ms)[1] \o <<":">> \o Head(ms)[2]
         \o (IF Len(ms) > 1 THEN <<",">> ELSE <<>>) \o JoinMembers(Tail(ms))

RECURSIVE JoinItems(_)
JoinItems(xs) ==
    IF xs = <<>> THEN <<>>
    ELSE Head(xs) \o (IF Len(xs) > 1 THEN <<",">> ELSE <<>>) \o JoinItems(Tail(xs))

\* The decoder.  A parsed value is kept as its canonical text: the lexemes of
\* the value with the whitespace between tokens dropped and repeated keys
\* merged.  ParseValue reads one value at i; ParseMembers and ParseItems
\* read the rest of an object or an array after its opening bracket.
RECURSIVE ParseValue(_, _)
RECURSIVE ParseMembers(_, _, _)
RECURSIVE ParseItems(_, _, _)

ParseValue(t, i) ==
    IF i > Len(t) THEN Failed
    ELSE IF t[i] = "\"" THEN
        LET e == StringEnd(t, i + 1)
        IN  IF e = 0 THEN Failed
            ELSE [ok |-> TRUE, next |-> e + 1, val |-> SubSeq(t, i, e)]
    ELSE IF t[i] \in JsonNumbers \cup {"true", "false", "null"} THEN
        [ok |-> TRUE, next |-> i + 1, val |-> <<t[i]>>]
    ELSE IF t[i] = "{" THEN
        LET j == SkipJsonWs(t, i + 1)
        IN  IF j <= Len(t) /\ t[j] = "}"
            THEN [ok |-> TRUE, next |-> j + 1, val |-> <<"{", "}">>]
            ELSE ParseMembers(t, j, <<>>)
    ELSE IF t[i] = "[" THEN
        LET j == SkipJsonWs(t, i + 1)
        IN  IF j <= Len(t) /\ t[j] = "]"
            THEN [ok |-> TRUE, next |-> j + 1, val |-> <<"[", "]">>]
            ELSE ParseItems(t, j, <<>>)
    ELSE Failed

\* at i: a key string, a colon, a value, then a comma and more, or the brace
ParseMembers(t, i, ms) ==
    IF i > Len(t) \/ t[i] # "\"" THEN Failed
    ELSE
      LET e == StringEnd(t, i + 1)
          c == IF e = 0 THEN 0 ELSE SkipJsonWs(t, e + 1)
      IN  IF e = 0 \/ c > Len(t) \/ t[c] # ":" THEN Failed
          ELSE
            LET v == ParseValue(t, SkipJsonWs(t, c + 1))
                d == IF v.ok THEN SkipJsonWs(t, v.next) ELSE 0
                ms2 == IF v.ok THEN PutMember(ms, SubSeq(t, i, e), v.val) ELSE ms
            IN  IF ~v.ok \/ d > Len(t) THEN Failed
                ELSE IF t[d] = "}"
                     THEN [ok |-> TRUE, next |-> d + 1,
                           val |-> <<"{">> \o JoinMembers(ms2) \o <<"}">>]
                ELSE IF t[d] = ","
                     THEN ParseMembers(t, SkipJsonWs(t, d + 1), ms2)
                ELSE Failed

\* at i: a value, then a comma and more, or the bracket
ParseItems(t, i, xs) ==
    LET v == ParseValue(t, i)
        d == IF v.ok THEN SkipJsonWs(t, v.next) ELSE 0
        xs2 == IF v.ok THEN Append(xs, v.val) ELSE xs
    IN  IF ~v.ok \/ d > Len(t) THEN Failed
        ELSE IF t[d] = "]"
             THEN [ok |-> TRUE, next |-> d + 1,
                   val |-> <<"[">> \o JoinItems(xs2) \o <<"]">>]
        ELSE IF t[d] = ","
             THEN ParseItems(t, SkipJsonWs(t, d + 1), xs2)
        ELSE Failed

\* json.loads(text): ok is FALSE where Python raises JSONDecodeError
Loads(t) ==
    LET v == ParseValue(t, SkipJsonWs(t, 1))
    IN  IF v.ok /\ SkipJsonWs(t, v.next) > Len(t)
        THEN [ok |-> TRUE, val |-> v.val]
        ELSE [ok |-> FALSE, val |-> <<>>]

\* isinstance(value, dict) / isinstance(value, list), and the kind otherwise
JsonKind(v) ==
    CASE v[1] = "{" -> "object"
      [] v[1] = "[" -> "array"
      [] v[1] = "\"" -> "string"
      [] v[1] \in JsonNumbers -> "number"
      [] OTHER -> "literal"

IsDict(v) == v # None /\ JsonKind(v) = "object"
IsList(v) == v # None /\ JsonKind(v) = "array"

IndentWidth == 4

RECURSIVE Spaces(_)
Spaces(n) == IF n <= 0 THEN <<>> ELSE <<" ">> \o Spaces(n - 1)

\* json.dumps(value, indent=4): one member or item per line, nested blocks
\* indented by four spaces per level, ": " after a key, empty containers
\* kept closed on one line
RECURSIVE DumpsFrom(_, _, _, _)
DumpsFrom(v, i, depth, inString) ==
    IF i > Len(v) THEN <<>>
    ELSE IF inString THEN <<v[i]>> \o DumpsFrom(v, i + 1, depth, v[i] # "\"")
    ELSE IF v[i] = "\"" THEN <<v[i]>> \o DumpsFrom(v, i + 1, depth, TRUE)
    ELSE IF v[i] \in {"{", "["} THEN
        IF i < Len(v) /\ v[i + 1] \in {"}", "]"}
        THEN <<v[i], v[i + 1]>> \o DumpsFrom(v, i + 2, depth, FALSE)
        ELSE <<v[i], "\n">> \o Spaces(IndentWidth * (depth + 1))
             \o DumpsFrom(v, i + 1, depth + 1, FALSE)
    ELSE IF v[i] \in {"}", "]"} THEN
        <<"\n">> \o Spaces(IndentWidth * (depth - 1)) \o <<v[i]>>
        \o DumpsFrom(v, i + 1, depth - 1, FALSE)
    ELSE IF v[i] = "," THEN
        <<",", "\n">> \o Spaces(IndentWidth * depth) \o DumpsFrom(v, i + 1, depth, FALSE)
    ELSE IF v[i] = ":" THEN <<":", " ">> \o DumpsFrom(v, i + 1, depth, FALSE)
    ELSE <<v[i]>> \o DumpsFrom(v, i + 1, depth, FALSE)

Dumps(v) == DumpsFrom(v, 1, 0, FALSE)

-----------------------------------------------------------------------------
(* extract_json_robust *)

\* re.sub(r"<fence>(?:json)?\s*", "", text, flags=re.IGNORECASE)
RECURSIVE RemoveFenceOpenersJson(_, _)
RemoveFenceOpenersJson(t, i) ==
    IF i > Len(t) THEN <<>>
    ELSE IF StartsAt(t, i, Fence)
         THEN RemoveFenceOpenersJson(t,
                  SkipSpaces(t, IF i + 3 <= Len(t) /\ Lower(t[i + 3]) = "json"
                                THEN i + 4 ELSE i + 3))
         ELSE <<t[i]>> \o RemoveFenceOpenersJson(t, i + 1)

\* One of the two scanning loops: over the characters from i on, with the
\* loop's stack and start_index.  An opening bracket is pushed (and marks the
\* start when the stack was empty); a closing bracket pops, and when the stack
\* empties the region from the start is given to json.loads: its value is
\* returned, or the loop goes on when it does not parse; a closing bracket
\* with an empty stack resets.  None when the loop ends.
RECURSIVE ScanRegions(_, _, _, _, _, _)
ScanRegions(t, i, stack, start, open, close) ==
    IF i > Len(t) THEN None
    ELSE IF t[i] = open THEN
        ScanRegions(t, i + 1, Append(stack, open),
                    IF stack = <<>> THEN i ELSE start, open, close)
    ELSE IF t[i] = close THEN
        IF stack # <<>> /\ stack[Len(stack)] = open
        THEN LET popped == SubSeq(stack, 1, Len(stack) - 1)
                 r == Loads(Slice(t, start, i))
             IN  IF popped = <<>> /\ r.ok THEN r.val
                 ELSE ScanRegions(t, i + 1, popped, start, open, close)
        ELSE ScanRegions(t, i + 1, <<>>, -1, open, close)
    ELSE ScanRegions(t, i + 1, stack, start, open, close)

\* extract_json_robust with its two loops in the other order
ExtractArraysFirst(t) ==
    LET arr == ScanRegions(t, 1, <<>>, -1, "[", "]")
    IN  IF arr # None THEN arr
        ELSE ScanRegions(t, 1, <<>>, -1, "{", "}")

\* extract_json_robust(text): the object loop, then the array loop
ExtractJsonRobust(t) ==
    LET obj == ScanRegions(t, 1, <<>>, -1, "{", "}")
    IN  IF obj # None THEN obj
        ELSE ScanRegions(t, 1, <<>>, -1, "[", "]")

\* _extract_and_parse_json(text): fences removed once more, then the scan
ExtractAndParseJson(t) ==
    ExtractJsonRobust(RemoveAll(RemoveFenceOpenersJson(t, 1), 1, Fence))

-----------------------------------------------------------------------------
(* The request context and the canonical representation *)

\* "word" in text.lower(), for a word that no lexeme used here contains
\* without being it
InLower(word, t) == \E i \in 1..Len(t) : Lower(t[i]) = word

\* Python's None where a list of texts is expected
NoneList == <<None>>

\* data_structures.universal_representation (error is a key that the parser
\* adds; "" stands for its absence).  output_structure, the analyzer's profile
\* of the cleaned text, is read by nothing in the pipeline and is left out.
EmptyRepresentation ==
    [text_content |-> None, json_fields |-> None, code_snippets |-> NoneList,
     html_content |-> None, error |-> ""]

\* truthiness of an optional text and of an optional list
Truthy(t) == t # None /\ t # <<>>
TruthyList(l) == l # NoneList /\ l # <<>>

-----------------------------------------------------------------------------
(* BeautifulSoup(text, 'html.parser'), soup.find() and str(soup), for texts  *)
(* whose tags have no attributes: <name>, <name/> and </name>.  Any other    *)
(* "<" is character data.                                                    *)

\* the tag that starts at position i: "start" for <name>, "self" for
\* <name/>, "end" for </name>, "" for none; a tag name starts with a letter
TagAt(t, i) ==
    LET IsTagName(c) == IsWord(c) /\ c \notin JsonNumbers
    IN  IF i + 2 <= Len(t) /\ t[i] = "<" /\ IsTagName(t[i + 1]) /\ t[i + 2] = ">"
        THEN "start"
        ELSE IF /\ i + 3 <= Len(t) /\ t[i] = "<" /\ IsTagName(t[i + 1])
                /\ t[i + 2] = "/" /\ t[i + 3] = ">"
        THEN "self"
        ELSE IF /\ i + 3 <= Len(t) /\ t[i] = "<" /\ t[i + 1] = "/"
                /\ IsTagName(t[i + 2]) /\ t[i + 3] = ">"
        THEN "end"
        ELSE ""

\* soup.find(): the first element, None when the text opens none.  An end
\* tag that closes nothing makes no element.
HtmlHasTag(t) ==
    \E i \in 1..Len(t) : TagAt(t, i) \in {"start", "self"}

\* a text node on output: "&", "<" and ">" become entities
RECURSIVE EscapeText(_)
EscapeText(t) ==
    IF t = <<>> THEN <<>>
    ELSE (CASE Head(t) = "<" -> <<"&", "lt", ";">>
            [] Head(t) = ">" -> <<"&", "gt", ";">>
            [] Head(t) = "&" -> <<"&", "amp", ";">>
            [] OTHER -> <<Head(t)>>) \o EscapeText(Tail(t))

\* a text node as the tree keeps it: a node of nothing but whitespace is
\* one line break when it holds one, one space otherwise
TextNode(t) ==
    IF t = <<>> THEN <<>>
    ELSE IF \A k \in 1..Len(t) : IsSpace(t[k])
         THEN (IF \E k \in 1..Len(t) : t[k] = "\n" THEN <<"\n">> ELSE <<" ">>)
    ELSE EscapeText(t)

\* the end tags of the open elements from the innermost one out, down to
\* and including the element at position from
RECURSIVE CloseDownTo(_, _)
CloseDownTo(stack, from) ==
    IF Len(stack) < from \/ stack = <<>> THEN <<>>
    ELSE <<"<", "/", stack[Len(stack)], ">">>
         \o CloseDownTo(SubSeq(stack, 1, Len(stack) - 1), from)

\* str(BeautifulSoup(t, 'html.parser')) from position i on, with the names of
\* the open elements and the character data read since the last tag.  A
\* start tag opens an element inside the innermost open one; an element
\* that never has content is written <name/>; an end tag closes the
\* innermost element of its name and all inside it, and is dropped when no
\* such element is open; the end of the text closes all.  An entity
\* reference in the data is read as its character.
RECURSIVE HtmlSerializeFrom(_, _, _, _)
HtmlSerializeFrom(t, i, stack, data) ==
    LET VoidElements == {"br", "hr", "img", "input", "meta", "link"}
        EntityAt == IF StartsAt(t, i, <<"&", "lt", ";">>) THEN "<"
                    ELSE IF StartsAt(t, i, <<"&", "gt", ";">>) THEN ">"
                    ELSE IF StartsAt(t, i, <<"&", "amp", ";">>) THEN "&"
                    ELSE ""
        opens == {k \in 1..Len(stack) : stack[k] = t[i + 2]}
        open == IF opens = {} THEN 0
                ELSE CHOOSE k \in opens : \A j \in opens : j <= k
    IN  IF i > Len(t) THEN TextNode(data) \o CloseDownTo(stack, 1)
        ELSE IF TagAt(t, i) = "start" THEN
            IF t[i + 1] \in VoidElements
            THEN TextNode(data) \o <<"<", t[i + 1], "/", ">">>
                 \o HtmlSerializeFrom(t, i + 3, stack, <<>>)
            ELSE TextNode(data) \o <<"<", t[i + 1], ">">>
                 \o HtmlSerializeFrom(t, i + 3, Append(stack, t[i + 1]), <<>>)
        ELSE IF TagAt(t, i) = "self" THEN
            IF t[i + 1] \in VoidElements
            THEN TextNode(data) \o <<"<", t[i + 1], "/", ">">>
                 \o HtmlSerializeFrom(t, i + 4, stack, <<>>)
            ELSE TextNode(data) \o <<"<", t[i + 1], ">", "<", "/", t[i + 1], ">">>
                 \o HtmlSerializeFrom(t, i + 4, stack, <<>>)
        ELSE IF TagAt(t, i) = "end" THEN
            IF open = 0
            THEN TextNode(data) \o HtmlSerializeFrom(t, i + 4, stack, <<>>)
            ELSE TextNode(data) \o CloseDownTo(stack, open)
                 \o HtmlSerializeFrom(t, i + 4, SubSeq(stack, 1, open - 1), <<>>)
        ELSE IF EntityAt # ""
             THEN HtmlSerializeFrom(t, i + 3, stack, Append(data, EntityAt))
        ELSE HtmlSerializeFrom(t, i + 1, stack, Append(data, t[i]))

HtmlSerialize(t) == HtmlSerializeFrom(t, 1, <<>>, <<>>)

\* _minimal_html(original_text): the two replace calls put back the
\* character they take out, so the text goes in as it is
MinimalHtml(text) ==
    <<"<", "html", ">", "<", "body", ">", "<", "p", ">">>
    \o RemoveTripleBackticks(text)
    \o <<"<", "/", "p", ">", "<", "/", "body", ">", "<", "/", "html", ">">>

\* a _parse_as_html that keeps the cleaned text when it has no element
ParseAsHtmlNoSkeleton(cleaned, rep) ==
    [rep EXCEPT !.html_content = HtmlSerialize(cleaned)]

\* _parse_as_html(cleaned_response, parsed_output, context)
ParseAsHtml(cleaned, rep) ==
    IF HtmlHasTag(cleaned)
    THEN [rep EXCEPT !.html_content = HtmlSerialize(cleaned)]
    ELSE [rep EXCEPT !.html_content = MinimalHtml(cleaned)]

-----------------------------------------------------------------------------
(* _extract_python_code and _parse_as_python *)

\* the first position from i on where a fence starts, 0 when there is none
RECURSIVE NextFence(_, _)
NextFence(t, i) ==
    IF i + 2 > Len(t) THEN 0
    ELSE IF StartsAt(t, i, Fence) THEN i ELSE NextFence(t, i + 1)

\* fence_regex.findall(text): the groups of the leftmost non-overlapping
\* matches of <fence>(?:python)?\s*([\s\S]*?)<fence>.  Only the word python
\* is taken with the opening fence; the group runs to the next fence.
RECURSIVE FenceGroups(_, _)
FenceGroups(t, i) ==
    IF i > Len(t) THEN <<>>
    ELSE IF StartsAt(t, i, Fence) THEN
        LET word == IF i + 3 <= Len(t) /\ t[i + 3] = "python" THEN i + 4 ELSE i + 3
            from == SkipSpaces(t, word)
            close == NextFence(t, from)
        IN  IF close = 0 THEN FenceGroups(t, i + 1)
            ELSE <<Slice(t, from, close - 1)>> \o FenceGroups(t, close + 3)
    ELSE FenceGroups(t, i + 1)

\* text.split("\n")
RECURSIVE SplitLines(_, _, _)
SplitLines(t, i, line) ==
    IF i > Len(t) THEN <<line>>
    ELSE IF t[i] = "\n" THEN <<line>> \o SplitLines(t, i + 1, <<>>)
    ELSE SplitLines(t, i + 1, Append(line, t[i]))

IndentSpaces == 4

\* ^( {4,}|\t+)(.*)$ on one line: whether it matches, and its second group
IndentedLine(line) ==
    LET Leading(c) == CHOOSE n \in 0..Len(line) :
                          /\ \A j \in 1..n : line[j] = c
                          /\ n < Len(line) => line[n + 1] # c
        spaces == Leading(" ")
        tabs == Leading("\t")
    IN  IF spaces >= IndentSpaces
        THEN [matches |-> TRUE, code |-> Slice(line, spaces + 1, Len(line))]
        ELSE IF spaces = 0 /\ tabs >= 1
        THEN [matches |-> TRUE, code |-> Slice(line, tabs + 1, Len(line))]
        ELSE [matches |-> FALSE, code |-> <<>>]

\* the loop over the indented lines, with current_block: a line that is not
\* blank goes to the block, a blank one ends the block
RECURSIVE IndentedBlocks(_, _)
IndentedBlocks(codes, current) ==
    IF codes = <<>>
    THEN (IF Strip(current) # <<>> THEN <<Strip(current)>> ELSE <<>>)
    ELSE IF Strip(Head(codes)) # <<>>
         THEN IndentedBlocks(Tail(codes), current \o Strip(Head(codes)) \o <<"\n">>)
    ELSE (IF Strip(current) # <<>> THEN <<Strip(current)>> ELSE <<>>)
         \o IndentedBlocks(Tail(codes), <<>>)

\* _extract_python_code(text): the fenced groups, or the blocks of the
\* indented lines (the second groups of indented_code_regex.findall) when
\* there is no fenced group; each stripped, the empty ones left out
ExtractPythonCode(text) ==
    LET StripNonEmpty(l) ==
            SelectSeq([k \in 1..Len(l) |-> Strip(l[k])], LAMBDA c : c # <<>>)
        fenced == FenceGroups(text, 1)
        matching == SelectSeq(SplitLines(text, 1, <<>>),
                              LAMBDA line : IndentedLine(line).matches)
        indented == [k \in 1..Len(matching) |-> IndentedLine(matching[k]).code]
    IN  IF fenced = <<>> /\ indented # <<>>
        THEN StripNonEmpty(IndentedBlocks(indented, <<>>))
        ELSE StripNonEmpty(fenced)

\* a _parse_as_python that takes the whole text for the code when it finds
\* no fragment
ParseAsPythonWholeText(cleaned, rep, ctx) ==
    [rep EXCEPT !.code_snippets =
        IF ExtractPythonCode(cleaned) # <<>> THEN ExtractPythonCode(cleaned)
        ELSE <<cleaned>>]

\* _parse_as_python(cleaned_response, parsed_output, context)
ParseAsPython(cleaned, rep, ctx) ==
    LET code_snippets == ExtractPythonCode(cleaned)
    IN  IF ctx.output_intent = "code_only" THEN
            IF code_snippets # <<>>
            THEN [rep EXCEPT !.code_snippets = code_snippets]
            ELSE [rep EXCEPT !.code_snippets = <<>>, !.error = "NoCodeFound"]
        ELSE IF ctx.output_intent = "code_with_explanation"
        THEN [rep EXCEPT !.code_snippets = code_snippets,
                         !.text_content = cleaned]
        ELSE rep

-----------------------------------------------------------------------------
(* _parse_as_json and parse_llm_output *)

RawTextLimit == 500

\* a Python string as the text of a JSON string literal (json.dumps escapes
\* the quote and the line break)
RECURSIVE JsonEscape(_)
JsonEscape(t) ==
    IF t = <<>> THEN <<>>
    ELSE (CASE Head(t) = "\"" -> <<"\\\"">>
            [] Head(t) = "\n" -> <<"\\n">>
            [] OTHER -> <<Head(t)>>) \o JsonEscape(Tail(t))

JsonString(t) == <<"\"">> \o JsonEscape(t) \o <<"\"">>

\* a fallback that keeps the text it could not parse
CouldNotParseKeepsText(cleaned) == cleaned

\* {"error": "Could not parse JSON", "raw_text": cleaned_response[:500]}
CouldNotParse(cleaned) ==
    <<"{">> \o JsonString(<<"error">>) \o <<":">>
    \o JsonString(<<"Could not parse JSON">>) \o <<",">>
    \o JsonString(<<"raw_text">>) \o <<":">>
    \o JsonString(SubSeq(cleaned, 1, IF Len(cleaned) < RawTextLimit
                                     THEN Len(cleaned) ELSE RawTextLimit))
    \o <<"}">>

\* the value json.loads returns as a Python object: null is None
PyValue(v) == IF v = <<"null">> THEN None ELSE v

\* the two conditions of _parse_as_json under which no flag is set
ListAccepted(ctx) ==
    InLower("array", ctx.prompt_text) \/ ctx.input_json_type = "array"

DictAccepted(ctx) ==
    ~InLower("array", ctx.prompt_text) \/ ctx.input_json_type = "object"

\* the one element of a singleton set; {e(x) : x \in {v}} binds x to the
\* value of v, so that e does not compute v again each time it reads x
Only(S) == CHOOSE x \in S : TRUE

\* _parse_as_json once extracted_json is known
ParseExtracted(extracted, cleaned, rep, ctx) ==
    LET fallback == Loads(cleaned)
    IN  IF extracted # None THEN
            IF IsList(extracted) /\ ListAccepted(ctx)
            THEN [rep EXCEPT !.json_fields = extracted]
            ELSE IF IsDict(extracted) /\ DictAccepted(ctx)
            THEN [rep EXCEPT !.json_fields = extracted]
            ELSE [rep EXCEPT !.json_fields = extracted,
                             !.error = "IncorrectJSONStructure"]
        ELSE IF fallback.ok
             THEN [rep EXCEPT !.json_fields = PyValue(fallback.val)]
             ELSE [rep EXCEPT !.json_fields = CouldNotParse(cleaned)]

\* _parse_as_json(cleaned_response, parsed_output, context)
ParseAsJson(cleaned, rep, ctx) ==
    Only({ ParseExtracted(extracted, cleaned, rep, ctx) :
             extracted \in {ExtractAndParseJson(cleaned)} })

\* parse_llm_output once cleaned_response is known
ParseCleaned(cleaned, format, ctx) ==
    CASE format = "json" -> ParseAsJson(cleaned, EmptyRepresentation, ctx)
      [] format = "html" -> ParseAsHtml(cleaned, EmptyRepresentation)
      [] format = "python" -> ParseAsPython(cleaned, EmptyRepresentation, ctx)
      [] OTHER -> [EmptyRepresentation EXCEPT !.text_content = cleaned]

\* parse_llm_output(raw_llm_response, requested_format, context)
ParseLlmOutput(raw, format, ctx) ==
    Only({ ParseCleaned(cleaned, format, ctx) : cleaned \in {Cleanup(raw)} })

-----------------------------------------------------------------------------
(* The renderers of format_transformer.py.  A renderer yields the text, or   *)
(* raises: raised is TRUE and text is empty.                                 *)

Returned(t) == [raised |-> FALSE, text |-> t]
Raised == [raised |-> TRUE, text |-> <<>>]

\* "\n".join(texts)
RECURSIVE JoinLines(_)
JoinLines(l) ==
    IF l = <<>> THEN <<>>
    ELSE Head(l) \o (IF Len(l) > 1 THEN <<"\n">> ELSE <<>>) \o JoinLines(Tail(l))

\* text.replace("\n", "\n" + prefix)
RECURSIVE PrefixLines(_, _)
PrefixLines(t, prefix) ==
    IF t = <<>> THEN <<>>
    ELSE (IF Head(t) = "\n" THEN <<"\n">> \o prefix ELSE <<Head(t)>>)
         \o PrefixLines(Tail(t), prefix)

\* {"result": text} and {"error": text} as JSON values
ResultObject(t) ==
    <<"{">> \o JsonString(<<"result">>) \o <<":">> \o JsonString(t) \o <<"}">>
ErrorObject(t) ==
    <<"{">> \o JsonString(<<"error">>) \o <<":">> \o JsonString(t) \o <<"}">>

\* values json.dumps cannot write: an object of another type (a set), and
\* a dictionary that holds one
Unserializable == { <<"set()">>, <<"{'a': set()}">> }

\* a JSONTransformer.transform that returns a text that does not parse as
\* it is
JSONTransformAsIs(rep, ctx) ==
    IF rep.json_fields # None THEN Returned(Strip(rep.json_fields))
    ELSE IF rep.text_content # None THEN Returned(Strip(rep.text_content))
    ELSE Returned(<<>>)

\* JSONTransformer.transform: every value json.loads yields passes the
\* isinstance test, and nothing in the try block raises for such values; a
\* value of another type gets the error document of the isinstance test,
\* and one json.dumps raises on gets that of the except clause
JSONTransform(rep, ctx) ==
    IF rep.json_fields \in Unserializable
    THEN Returned(Dumps(ErrorObject(
             IF rep.json_fields = <<"set()">>
             THEN <<"Unexpected data type in json_fields: <class 'set'>">>
             ELSE <<"Object of type set is not JSON serializable">>)))
    ELSE IF rep.json_fields # None THEN Returned(Strip(Dumps(rep.json_fields)))
    ELSE IF rep.text_content # None THEN
        LET r == Loads(rep.text_content)
        IN  IF r.ok THEN Returned(Strip(Dumps(r.val)))
            ELSE Returned(Strip(Dumps(ResultObject(rep.text_content))))
    ELSE Returned(Strip(Dumps(ErrorObject(<<"No data to transform to JSON.">>))))

\* PlainTextTransformer.transform: None has no strip()
PlainTextTransform(rep, ctx) ==
    IF rep.text_content = None THEN Raised
    ELSE Returned(Strip(rep.text_content))

\* "\n".join(universal_representation.get("code_snippets", [])): the key is
\* always present, so the default is never used, and join raises on None
JoinSnippets(rep) ==
    IF rep.code_snippets = NoneList THEN Raised
    ELSE Returned(JoinLines(rep.code_snippets))

\* JavaTransformer.transform
JavaTransform(rep, ctx) ==
    IF ctx.output_intent = "code_only" THEN
        IF JoinSnippets(rep).raised THEN Raised
        ELSE Returned(Strip(JoinSnippets(rep).text))
    ELSE IF TruthyList(rep.code_snippets)
         THEN Returned(Strip(JoinLines(rep.code_snippets)))
    ELSE IF Truthy(rep.text_content)
         THEN Returned(Strip(<<"//">> \o PrefixLines(rep.text_content, <<"//">>)))
    ELSE Returned(<<>>)

\* HTMLJavascriptTransformer.transform: the join comes first
HTMLJavascriptTransform(rep, ctx) ==
    IF JoinSnippets(rep).raised THEN Raised
    ELSE LET html == IF Truthy(rep.html_content) THEN rep.html_content \o <<"\n">>
                     ELSE <<>>
             js == JoinSnippets(rep).text
         IN  Returned(Strip(html \o (IF js # <<>>
                                     THEN <<"<", "script", ">", "\n">> \o js
                                          \o <<"\n", "<", "/", "script", ">">>
                                     ELSE <<>>)))

\* text.replace("\n", "<br>")
RECURSIVE BreakLines(_)
BreakLines(t) ==
    IF t = <<>> THEN <<>>
    ELSE (IF Head(t) = "\n" THEN <<"<", "br", ">">> ELSE <<Head(t)>>)
         \o BreakLines(Tail(t))

\* HTMLTransformer.transform.  The table made of a structured value is not
\* spelled out cell by cell: every result of that branch, the table, the
\* placeholder and the error paragraph, is one element.
HTMLTransform(rep, ctx) ==
    LET Paragraph(t) == <<"<", "p", ">">> \o t \o <<"<", "/", "p", ">">>
    IN  IF rep.html_content # None THEN Returned(Strip(rep.html_content))
        ELSE IF rep.json_fields # None
             THEN Returned(<<"<", "table", ">", "json_fields", "<", "/", "table", ">">>)
        ELSE IF rep.text_content # None
             THEN Returned(Strip(Paragraph(BreakLines(rep.text_content))))
        ELSE Returned(Paragraph(<<"No data available.">>))

\* PythonTransformer.transform: the fragments, and with them the whole
\* text_content unless the intent is code_only; join raises on None and so
\* does the concatenation of a text with None
PythonTransform(rep, ctx) ==
    IF JoinSnippets(rep).raised THEN Raised
    ELSE IF ctx.output_intent = "code_only"
         THEN Returned(Strip(JoinSnippets(rep).text))
    ELSE IF rep.text_content = None THEN Raised
    ELSE Returned(Strip(JoinSnippets(rep).text \o <<"\n">> \o rep.text_content))

\* RubyTransformer.transform
RubyTransform(rep, ctx) ==
    IF ctx.output_intent = "code_only" THEN
        IF JoinSnippets(rep).raised THEN Raised
        ELSE Returned(Strip(JoinSnippets(rep).text))
    ELSE IF TruthyList(rep.code_snippets)
         THEN Returned(Strip(JoinLines(rep.code_snippets)))
    ELSE IF Truthy(rep.text_content)
         THEN Returned(Strip(<<"#">> \o PrefixLines(rep.text_content, <<"#", " ">>)))
    ELSE Returned(<<>>)

\* the keys of TRANSFORMER_MAP
TRANSFORMER_MAP ==
    {"python", "java", "javascript", "htmljavascript", "html", "css", "sql",
     "c", "c++", "c#", "go", "ruby", "php", "swift", "kotlin", "r", "bash",
     "typescript", "json", "plaintext"}

\* get_transformer(requested_format).transform(representation, context), for
\* the formats modelled; a name TRANSFORMER_MAP does not hold gets the
\* plain-text renderer
Transform(rep, format, ctx) ==
    CASE format = "json" -> JSONTransform(rep, ctx)
      [] format = "html" -> HTMLTransform(rep, ctx)
      [] format = "python" -> PythonTransform(rep, ctx)
      [] format = "java" -> JavaTransform(rep, ctx)
      [] format = "ruby" -> RubyTransform(rep, ctx)
      [] format = "htmljavascript" -> HTMLJavascriptTransform(rep, ctx)
      [] OTHER -> PlainTextTransform(rep, ctx)

-----------------------------------------------------------------------------
(* validator.py *)

\* True; a message is the sequence of the pieces it is formatted from, and
\* hints are the keys of the positions a report carries (line, column, ...)
Valid ==
    [valid |-> TRUE, error_type |-> "", message |-> <<>>, hints |-> {},
     fallback_ok |-> FALSE]

Invalid(type, msg) ==
    [valid |-> FALSE, error_type |-> type, message |-> msg, hints |-> {},
     fallback_ok |-> FALSE]

\* validate_json(output, expected_structure); "" is no expectation.  The
\* message of a decode error is the decoder's, not spelled out here.
ValidateJson(output, expected) ==
    LET parsed == Loads(output)
    IN  IF ~parsed.ok
        THEN [Invalid("JSONDecodeError", <<"json decode error">>)
                 EXCEPT !.hints = {"line", "column", "position"}]
        ELSE IF expected = "array" /\ ~IsList(PyValue(parsed.val))
             THEN Invalid("JSONStructureError",
                          <<"Expected a JSON array, but got a JSON object.">>)
        ELSE IF expected = "object" /\ ~IsDict(PyValue(parsed.val))
             THEN Invalid("JSONStructureError",
                          <<"Expected a JSON object, but got a JSON array.">>)
        ELSE Valid

\* validate_html(output)
ValidateHtml(output) ==
    IF HtmlHasTag(output) THEN Valid
    ELSE [Invalid("HTMLStructureError", <<"No recognizable HTML tags found.">>)
             EXCEPT !.fallback_ok = TRUE]

\* the line at which compile(output, "<string>", "exec") raises its
\* SyntaxError, 0 when it succeeds.  One logical line of a
\* program is blank or a comment, or else, starting in the first column,
\* an expression statement or an annotated name, with or without a comment
\* after it (no text here has a "#" inside a string).  The expressions are
\* names, numbers and the literals json.loads reads, which is the Python
\* that the texts used here hold.
PySyntaxErrorLine(t) ==
    LET BeforeComment(line) ==
            LET hashes == {k \in 1..Len(line) : line[k] = "#"}
            IN  IF hashes = {} THEN line
                ELSE SubSeq(line, 1, (CHOOSE k \in hashes :
                                         \A j \in hashes : k <= j) - 1)
        PyExpression(s) == (Len(s) = 1 /\ IsWord(s[1])) \/ Loads(s).ok
        PyStatement(s) ==
            \/ PyExpression(s)
            \/ /\ Len(s) >= 3
               /\ IsWord(s[1])
               /\ s[1] \notin JsonNumbers
               /\ s[2] = ":"
               /\ PyExpression(Strip(SubSeq(s, 3, Len(s))))
        PyLine(line) ==
            \/ Strip(BeforeComment(line)) = <<>>
            \/ ~IsSpace(line[1]) /\ PyStatement(Strip(BeforeComment(line)))
        lines == SplitLines(t, 1, <<>>)
        bad == {k \in 1..Len(lines) : ~PyLine(lines[k])}
    IN  IF bad = {} THEN 0
        ELSE CHOOSE k \in bad : \A j \in bad : k <= j

\* validate_python(output); of the message of the SyntaxError, the part
\* that names the line is spelled out
ValidatePython(output) ==
    Only({ IF line = 0 THEN Valid
           ELSE [Invalid("PythonSyntaxError",
                         <<"syntax error (<string>, line ", ToString(line), ")">>)
                    EXCEPT !.hints = {"line", "offset"}] :
           line \in {PySyntaxErrorLine(output)} })

\* validate_output(transformed_output, requested_format, expected_structure),
\* for the formats modelled
ValidateOutput(output, format, expected) ==
    CASE format = "json" -> ValidateJson(output, expected)
      [] format = "html" -> ValidateHtml(output)
      [] format = "python" -> ValidatePython(output)
      [] format = "plaintext" -> Valid
      [] OTHER -> Invalid("UnknownFormat", <<"Unknown format for validation: ", format>>)

\* app.py and error_corrector.py both derive expected_structure this way
ExpectedStructure(format, ctx) ==
    IF format = "json" /\ InLower("array", ctx.prompt_text) THEN "array"
    ELSE IF format = "json" /\ InLower("object", ctx.prompt_text) THEN "object"
    ELSE ""

-----------------------------------------------------------------------------
(* The state of the service before any request *)

NoReply == [is_str |-> TRUE, text |-> <<>>, transport |-> FALSE]
NoContext == [requested_format |-> "", prompt_text |-> <<>>,
              output_intent |-> "", input_json_type |-> "", error |-> "",
              llm_format_deduction_response |-> NoReply]
NoPrompt == [template |-> "", error_type |-> "", message |-> <<>>,
             hints |-> {}, original_request |-> <<>>,
             previous_response |-> <<>>, code_only |-> FALSE]
NoResponse == [status |-> 0, body |-> <<>>]
NoException == [type |-> "", in |-> ""]

AppIdle ==
    /\ pc = "ready"
    /\ context = NoContext
    /\ raw_llm_response = NoReply
    /\ universal_representation = EmptyRepresentation
    /\ transformed_output = <<>>
    /\ expected_structure = ""
    /\ validation_result = Valid
    /\ error_corrector_output = None
    /\ corrector_transformed_output = <<>>
    /\ corrector_validation_result = Valid
    /\ last_error = <<>>
    /\ attempt = 0
    /\ prompt = NoPrompt
    /\ response = NoResponse
    /\ learning_data = <<>>
    /\ calls = 0
    /\ log = <<>>
    /\ raised = NoException
    /\ clock = 0
    /\ log_dir = <<>>
    /\ written = <<>>

-----------------------------------------------------------------------------
(* Texts the function specifications draw their inputs from *)

\* every concatenation of at most n of the given segments
RECURSIVE Concats(_, _)
Concats(segs, n) ==
    IF n = 0 THEN {<<>>}
    ELSE Concats(segs, n - 1) \cup {s \o t : s \in segs, t \in Concats(segs, n - 1)}

MaxCleanupSegments == 4

-----------------------------------------------------------------------------
(* Specification SpecCleanup: cleanup applied once and then to its own result *)

InitCleanup ==
    /\ fn = "cleanup"
    /\ fin \in Concats({ <<Backtick>>, <<Backtick, Backtick>>, <<"json">>,
                         <<" ">>, ResultPrefix, <<"}">>,
                         <<"I", " ", "am", " ", "an", " ">>,
                         <<"AI", " ", "model">> },
                       MaxCleanupSegments)
    /\ fstage = 0
    /\ fout = <<>>
    /\ fout2 = <<>>
    /\ AppIdle

CleanupOnce ==
    /\ fn = "cleanup"
    /\ fstage = 0
    /\ fout' = Cleanup(fin)
    /\ fstage' = 1
    /\ UNCHANGED <<fn, fin, fout2, appVars, sinkVars>>

CleanupTwice ==
    /\ fn = "cleanup"
    /\ fstage = 1
    /\ fout2' = Cleanup(fout)
    /\ fstage' = 2
    /\ UNCHANGED <<fn, fin, fout, appVars, sinkVars>>

NextCleanup == CleanupOnce \/ CleanupTwice

SpecCleanup == InitCleanup /\ [][NextCleanup]_vars

\* C6: cleanup is idempotent: cleaning the cleaned text changes nothing.
C6_CleanupIdempotent ==
    (fn = "cleanup" /\ fstage = 2) => fout2 = fout

-----------------------------------------------------------------------------
(* Specification SpecExtract: extract_json_robust on texts built from regions *)

MaxExtractSegments == 3

ObjA == <<"{", "\"", "a", "\"", ":", "1", "}">>
Arr1 == <<"[", "1", "]">>

InitExtract ==
    /\ fn = "extract"
    /\ fin \in Concats({ <<"{">>, <<"}">>, <<"[">>, <<"]">>, ObjA,
                         <<"{", "\"", "a", "\"", ":", "\"", "}", "\"", "}">>,
                         <<"{", "x", "}">>, Arr1, <<"x", " ">> },
                       MaxExtractSegments)
    /\ fstage = 0
    /\ fout = <<>>
    /\ fout2 = <<>>
    /\ AppIdle

Extract ==
    /\ fn = "extract"
    /\ fstage = 0
    /\ fout' = ExtractJsonRobust(fin)
    /\ fstage' = 1
    /\ UNCHANGED <<fn, fin, fout2, appVars, sinkVars>>

NextExtract == Extract

SpecExtract == InitExtract /\ [][NextExtract]_vars

\* the well-formed {...} regions of a text: the stretches from a "{" to a "}"
\* that parse as a JSON object, and among them those inside no other
ObjectRegions(t) ==
    { r \in (1..Len(t)) \X (1..Len(t)) :
        /\ r[1] < r[2]
        /\ t[r[1]] = "{"
        /\ t[r[2]] = "}"
        /\ Loads(SubSeq(t, r[1], r[2])).ok }

OuterObjectRegions(t) ==
    { r \in ObjectRegions(t) :
        \A q \in ObjectRegions(t) : (q[1] <= r[1] /\ r[2] <= q[2]) => q = r }

\* C7: when a text holds a single well-formed {...} region, whatever stands
\* around it and inside it, extract_json_robust returns that region's value.
C7_SingleRegionExtracted ==
    (fn = "extract" /\ fstage >= 1 /\ Cardinality(OuterObjectRegions(fin)) = 1) =>
        \A r \in OuterObjectRegions(fin) : fout = Loads(SubSeq(fin, r[1], r[2])).val

\* the bracket depth after the first k characters, for one kind of bracket;
\* a closing bracket at depth 0 leaves the depth at 0
RECURSIVE Depth(_, _, _, _)
Depth(t, k, open, close) ==
    IF k = 0 THEN 0
    ELSE LET d == Depth(t, k - 1, open, close)
         IN  IF t[k] = open THEN d + 1
             ELSE IF t[k] = close /\ d > 0 THEN d - 1
             ELSE d

\* the balanced top-level regions of one kind of bracket: opened at depth 0
\* and closed where the depth first returns to 0
TopRegions(t, open, close) ==
    { r \in (1..Len(t)) \X (1..Len(t)) :
        /\ r[1] < r[2]
        /\ t[r[1]] = open
        /\ Depth(t, r[1] - 1, open, close) = 0
        /\ t[r[2]] = close
        /\ Depth(t, r[2], open, close) = 0
        /\ \A k \in r[1]..(r[2] - 1) : Depth(t, k, open, close) > 0 }

ParsingTopRegions(t, open, close) ==
    { r \in TopRegions(t, open, close) : Loads(SubSeq(t, r[1], r[2])).ok }

Earliest(rs) == CHOOSE r \in rs : \A q \in rs : r[1] <= q[1]

FirstParsingRegion(t) ==
    LET objs == ParsingTopRegions(t, "{", "}")
        arrs == ParsingTopRegions(t, "[", "]")
        val(r) == Loads(SubSeq(t, r[1], r[2])).val
    IN  IF objs # {} THEN val(Earliest(objs))
        ELSE IF arrs # {} THEN val(Earliest(arrs))
        ELSE None

-----------------------------------------------------------------------------
(* Specification SpecFinalize: one model response taken through              *)
(* parse_llm_output, the renderer and validate_output, as interpret does     *)

MaxHtmlSegments == 3

HtmlTexts ==
    Concats({ <<"<", "p", ">">>, <<"<", "/", "p", ">">>, <<"<", "br", ">">>,
              <<"hi">>, <<"<", " ">>, <<" ">>, <<"\n">> },
            MaxHtmlSegments)

FinalizeContext(format, intent) ==
    [requested_format |-> format, prompt_text |-> <<"list", " ", "users">>,
     output_intent |-> intent, input_json_type |-> "", error |-> ""]

FinalizeInputs ==
    { [ctx |-> FinalizeContext("html", "code_with_explanation"), raw |-> t] :
        t \in HtmlTexts }

\* the representations and contexts a renderer is given
TransformInputs ==
    { [format |-> f,
       ctx |-> FinalizeContext(f, i),
       rep |-> [text_content |-> t, json_fields |-> j, code_snippets |-> c,
                html_content |-> None, error |-> ""]] :
        f \in {"json", "python", "java", "ruby"},
        i \in {"code_only", "code_with_explanation"},
        t \in { None, <<>>, <<"sorry">>, <<"a", "\n", "b">>, ObjA,
                <<"{", "\"", "a", "\"", ":">>, <<"say", " ", "\"", "hi", "\"">> },
        j \in { None, ObjA, Arr1, <<"42">>, CouldNotParse(<<"sorry">>) } \cup Unserializable,
        c \in { NoneList, <<>>, << <<"x">> >>, << <<"x">>, <<"y", ":", " ", "1">> >> } }

MaxCodeSegments == 3

\* texts with fenced regions, indented lines and other lines
CodeTexts ==
    Concats({ Fence \o <<"python", "\n", "x", "\n">> \o Fence \o <<"\n">>,
              Fence \o <<"java", "\n", "y", "\n">> \o Fence \o <<"\n">>,
              <<" ", " ", " ", " ", "x", "\n">>,
              <<"\t", "z", "\n">>,
              <<"sorry", "\n">>,
              <<"\n">> }, MaxCodeSegments)

InitFinalize ==
    /\ \/ fn = "finalize" /\ fin \in FinalizeInputs
       \/ fn = "transform" /\ fin \in TransformInputs
       \/ fn = "extract" /\ fin \in CodeTexts
    /\ fstage = 0
    /\ fout = <<>>
    /\ fout2 = <<>>
    /\ AppIdle

\* app.py from parse_llm_output to validate_output
Finalize ==
    /\ fn = "finalize"
    /\ fstage = 0
    /\ \E format \in {fin.ctx.requested_format} :
       \E cleaned \in {Cleanup(fin.raw)} :
       \E rep \in {ParseCleaned(cleaned, format, fin.ctx)} :
       \E tr \in {Transform(rep, format, fin.ctx)} :
       \E v \in {ValidateOutput(tr.text, format, ExpectedStructure(format, fin.ctx))} :
        /\ fout' = [cleaned |-> cleaned, rep |-> rep, rendered |-> tr,
                    validation |-> IF tr.raised THEN Valid ELSE v]
        /\ fstage' = 1
        /\ UNCHANGED <<fn, fin, fout2, appVars, sinkVars>>

\* transformer.transform(universal_representation, context)
TransformStep ==
    /\ fn = "transform"
    /\ fstage = 0
    /\ \E tr \in {Transform(fin.rep, fin.format, fin.ctx)} :
        /\ fout' = tr
        /\ fstage' = 1
        /\ UNCHANGED <<fn, fin, fout2, appVars, sinkVars>>

\* _extract_python_code(text)
ExtractStep ==
    /\ fn = "extract"
    /\ fstage = 0
    /\ fout' = ExtractPythonCode(fin)
    /\ fstage' = 1
    /\ UNCHANGED <<fn, fin, fout2, appVars, sinkVars>>

NextFinalize == Finalize \/ TransformStep \/ ExtractStep

SpecFinalize == InitFinalize /\ [][NextFinalize]_vars

Finalized(format) ==
    fn = "finalize" /\ fstage = 1 /\ fin.ctx.requested_format = format

\* the names of the elements a text opens, in the order it opens them
RECURSIVE StartTagNames(_, _)
StartTagNames(t, i) ==
    IF i > Len(t) THEN <<>>
    ELSE (IF TagAt(t, i) \in {"start", "self"} THEN <<t[i + 1]>> ELSE <<>>)
         \o StartTagNames(t, i + 1)

SkeletonOpen == <<"<", "html", ">", "<", "body", ">", "<", "p", ">">>
SkeletonClose == <<"<", "/", "p", ">", "<", "/", "body", ">", "<", "/", "html", ">">>

Rendered(format) ==
    fn = "transform" /\ fstage = 1 /\ fin.format = format

\* {"error": ...}
IsErrorDocument(v) ==
    StartsWith(v, <<"{">> \o JsonString(<<"error">>) \o <<":">>)

\* C13 as stated: JSONTransformer.transform never raises and returns a text
\* that parses as JSON: the structured value when there is one, otherwise
\* the value the plain text parses to when it parses, and otherwise an
\* error document.
C13_ErrorDocumentOtherwise ==
    Rendered("json") =>
        /\ ~fout.raised
        /\ Loads(fout.text).ok
        /\ IF fin.rep.json_fields # None /\ fin.rep.json_fields \notin Unserializable
           THEN Loads(fout.text).val = fin.rep.json_fields
           ELSE IF /\ fin.rep.json_fields = None
                   /\ fin.rep.text_content # None
                   /\ Loads(fin.rep.text_content).ok
           THEN Loads(fout.text).val = Loads(fin.rep.text_content).val
           ELSE IsErrorDocument(Loads(fout.text).val)

\* C13 amended: JSONTransformer.transform never raises and returns a text
\* that parses as JSON: the structured value when there is one, otherwise
\* the value the plain text parses to when it parses, a document
\* {"result": text} around a plain text that does not parse, and an error
\* document when there is neither or the value cannot be written.
C13_AlwaysJson ==
    Rendered("json") =>
        /\ ~fout.raised
        /\ Loads(fout.text).ok
        /\ IF fin.rep.json_fields # None /\ fin.rep.json_fields \notin Unserializable
           THEN Loads(fout.text).val = fin.rep.json_fields
           ELSE IF fin.rep.json_fields # None
           THEN IsErrorDocument(Loads(fout.text).val)
           ELSE IF fin.rep.text_content = None
           THEN IsErrorDocument(Loads(fout.text).val)
           ELSE IF Loads(fin.rep.text_content).ok
           THEN Loads(fout.text).val = Loads(fin.rep.text_content).val
           ELSE Loads(fout.text).val = ResultObject(fin.rep.text_content)

\* a plain text with a quote in it that does not parse has been rendered
C13_Witness ==
    /\ Rendered("json")
    /\ fin.rep.json_fields = None
    /\ fin.rep.text_content = <<"say", " ", "\"", "hi", "\"">>
    /\ Loads(fout.text).ok

\* the fenced regions of a text, each without the language tag on the line
\* of its opening fence, whatever the tag is
RECURSIVE FencedRegions(_, _)
FencedRegions(t, i) ==
    IF i > Len(t) THEN <<>>
    ELSE IF StartsAt(t, i, Fence) THEN
        LET from == IF i + 4 <= Len(t) /\ IsWord(t[i + 3]) /\ t[i + 4] = "\n"
                    THEN i + 4 ELSE i + 3
            close == NextFence(t, from)
        IN  IF close = 0 THEN <<>>
            ELSE <<Strip(Slice(t, from, close - 1))>> \o FencedRegions(t, close + 3)
    ELSE FencedRegions(t, i + 1)

\* the maximal runs of contiguous indented lines, each without its
\* indentation
RECURSIVE IndentedRuns(_, _)
IndentedRuns(lines, current) ==
    IF lines = <<>>
    THEN (IF Strip(current) # <<>> THEN <<Strip(current)>> ELSE <<>>)
    ELSE IF IndentedLine(Head(lines)).matches
         THEN IndentedRuns(Tail(lines),
                  current \o Strip(IndentedLine(Head(lines)).code) \o <<"\n">>)
    ELSE (IF Strip(current) # <<>> THEN <<Strip(current)>> ELSE <<>>)
         \o IndentedRuns(Tail(lines), <<>>)

\* C14: _extract_python_code returns one fragment per fenced region, the
\* language tag left out whatever it is; for a text with no fenced region
\* it returns one fragment per maximal run of contiguous indented lines.
C14_FragmentPerRegionOrRun ==
    (fn = "extract" /\ fstage = 1) =>
        fout = IF NextFence(fin, 1) # 0 THEN FencedRegions(fin, 1)
               ELSE IndentedRuns(SplitLines(fin, 1, <<>>), <<>>)

\* C15: a renderer of the code family (python, java, ruby), given a list of
\* fragments and a text: with intent code_only it returns the joined
\* fragments only; otherwise the fragments followed by the text, and with
\* no fragments the text with every line made a comment by the comment
\* prefix config.py declares for the language.
C15_FragmentsThenTextOrComments ==
    LET prefix == IF fin.format = "java" THEN "//" ELSE "#"
        code == JoinLines(fin.rep.code_snippets)
        text == fin.rep.text_content
        out == SplitLines(fout.text, 1, <<>>)
    IN  (/\ fn = "transform" /\ fstage = 1
         /\ fin.format \in {"python", "java", "ruby"}
         /\ fin.rep.code_snippets # NoneList
         /\ Truthy(fin.rep.text_content))
        => /\ ~fout.raised
           /\ IF fin.ctx.output_intent = "code_only"
              THEN fout.text = Strip(code)
              ELSE IF fin.rep.code_snippets # <<>>
              THEN fout.text = Strip(code \o <<"\n">> \o text)
              ELSE /\ Len(out) = Len(SplitLines(Strip(text), 1, <<>>))
                   /\ \A k \in 1..Len(out) :
                          out[k] # <<>> /\ out[k][1] = prefix

-----------------------------------------------------------------------------
(* error_corrector.py: the heuristic and the correction prompts *)

ERROR_CORRECTION_RETRIES == 4

\* a heuristic that takes any text that parses
HeuristicAnyValue(rep, format) ==
    IF format = "json" /\ Truthy(rep.text_content) /\ Loads(Strip(rep.text_content)).ok
    THEN [applied |-> TRUE,
          rep |-> [rep EXCEPT !.json_fields = Loads(Strip(rep.text_content)).val,
                              !.text_content = None]]
    ELSE [applied |-> FALSE, rep |-> rep]

\* _heuristic_correction(universal_representation, requested_format): the
\* corrected representation, or no correction (None)
HeuristicCorrection(rep, format) ==
    LET text == Strip(rep.text_content)
        parsed == Loads(text)
    IN  IF /\ format = "json"
           /\ Truthy(rep.text_content)
           /\ text # <<>>
           /\ text[1] = "{"
           /\ text[Len(text)] = "}"
           /\ parsed.ok
        THEN [applied |-> TRUE,
              rep |-> [rep EXCEPT !.json_fields = parsed.val,
                                  !.text_content = None]]
        ELSE [applied |-> FALSE, rep |-> rep]

\* _construct_json_structure_prompt
JsonStructurePrompt(v, raw, ctx) ==
    [NoPrompt EXCEPT
        !.template =
            IF v.message = <<"Expected a JSON array, but got a JSON object.">>
            THEN "intended to be a JSON array, but it was a JSON object"
            ELSE IF v.message = <<"Expected a JSON object, but got a JSON array.">>
            THEN "intended to be a JSON object, but it was a JSON array"
            ELSE "intended to be JSON, but its structure was incorrect",
        !.original_request = ctx.prompt_text,
        !.previous_response = raw]

\* _construct_json_correction_prompt
JsonCorrectionPrompt(v, raw) ==
    [NoPrompt EXCEPT
        !.template = "intended to be JSON, but it contains a syntax error",
        !.message = v.message,
        !.hints = v.hints \cap {"line", "column"},
        !.previous_response = raw]

\* _construct_html_correction_prompt
HtmlCorrectionPrompt(v, raw) ==
    IF v.error_type = "HTMLStructureError"
    THEN [NoPrompt EXCEPT
             !.template = "intended to be HTML, but its structure is invalid",
             !.message = v.message,
             !.previous_response = raw]
    ELSE [NoPrompt EXCEPT
             !.template = "intended to be HTML, but it's invalid",
             !.previous_response = raw]

\* _construct_python_correction_prompt
PythonCorrectionPrompt(v, raw) ==
    IF v.error_type = "PythonSyntaxError"
    THEN [NoPrompt EXCEPT
             !.template = "intended to be Python code, but it contains a syntax error",
             !.message = v.message,
             !.hints = v.hints \cap {"line", "offset"},
             !.previous_response = raw]
    ELSE [NoPrompt EXCEPT
             !.template = "intended to be Python code, but it's invalid",
             !.previous_response = raw]

\* _construct_format_correction_prompt
FormatCorrectionPrompt(raw, format, v) ==
    [NoPrompt EXCEPT
        !.template = "supposed to be in " \o format \o " format, but it was invalid",
        !.error_type = v.error_type,
        !.message = v.message,
        !.previous_response = raw]

\* a correct_output that sends the general prompt whatever the error is
CorrectionPromptGeneral(v, raw, format, ctx) ==
    [FormatCorrectionPrompt(raw, format, v)
        EXCEPT !.code_only = (ctx.output_intent = "code_only")]

\* the prompt one iteration of correct_output sends
CorrectionPrompt(v, raw, format, ctx) ==
    LET p == IF format = "json" /\ v.error_type = "JSONDecodeError"
             THEN JsonCorrectionPrompt(v, raw)
             ELSE IF format = "json" /\ v.error_type = "JSONStructureError"
             THEN JsonStructurePrompt(v, raw, ctx)
             ELSE IF /\ format = "html"
                     /\ v.error_type \in {"HTMLStructureError", "HTMLParseError"}
             THEN HtmlCorrectionPrompt(v, raw)
             ELSE IF /\ format = "python"
                     /\ v.error_type \in {"PythonSyntaxError", "PythonValidationError"}
             THEN PythonCorrectionPrompt(v, raw)
             ELSE FormatCorrectionPrompt(raw, format, v)
    IN  [p EXCEPT !.code_only = (ctx.output_intent = "code_only")]

\* a loop that never takes its validation result for a success
CorrectionNeverSucceeds(v) == FALSE

\* the test that ends the loop of correct_output with success
CorrectionSucceeded(v) == v.valid

-----------------------------------------------------------------------------
(* Requests and the replies of the model client *)

\* what handle_user_request returns for a request that names its format: a
\* JSON request body is an object, other bodies have no JSON profile
Contexts ==
    { [requested_format |-> "json", prompt_text |-> p,
       output_intent |-> "code_with_explanation", input_json_type |-> j,
       error |-> "", llm_format_deduction_response |-> NoReply] :
        p \in { <<"list", " ", "users">>, <<"an", " ", "Array">>,
                <<"an", " ", "object">> },
        j \in {"", "object"} }
    \cup
    { [requested_format |-> f, prompt_text |-> <<"list", " ", "users">>,
       output_intent |-> i, input_json_type |-> "", error |-> "",
       llm_format_deduction_response |-> NoReply] :
        f \in {"java", "htmljavascript", "plaintext", "xml", "html", "python"},
        i \in {"code_only", "code_with_explanation"} }

ErrorPrefix == <<"Error", ":">>

\* send_prompt_to_llm returns the answer field as it came, a string or not,
\* or, when the request failed, a text that starts with "Error:"
Timeout ==
    [is_str |-> TRUE, transport |-> TRUE,
     text |-> ErrorPrefix \o <<" ">> \o ErrorPrefix
              \o <<" ", "Timeout while waiting for LLM response.">>]

NonStringAnswer == [is_str |-> FALSE, transport |-> FALSE, text |-> <<>>]

Replies ==
    { [is_str |-> TRUE, transport |-> FALSE, text |-> a] :
        a \in { ObjA, Arr1, <<"42">>, <<"sorry">>,
                ErrorPrefix \o <<" ">> \o ObjA } }
    \cup {Timeout, NonStringAnswer}

\* the replies to a request for a format: for python and html, texts with
\* and without code and markup; for java, also a blank answer
RepliesTo(format) ==
    IF format = "python"
    THEN { [is_str |-> TRUE, transport |-> FALSE, text |-> a] :
             a \in { <<"sorry">>, <<"no", " ", "code">>,
                     <<"sorry", "\n", " ", " ", " ", " ", "x">>,
                     Fence \o <<"python", "\n", "x", "\n">> \o Fence } }
         \cup {Timeout}
    ELSE IF format = "html"
    THEN { [is_str |-> TRUE, transport |-> FALSE, text |-> a] :
             a \in { <<"hi">>, <<"<", "p", ">", "hi">>, <<"<", "br", ">">> } }
         \cup {Timeout}
    ELSE IF format = "java"
    THEN Replies \cup { [is_str |-> TRUE, transport |-> FALSE, text |-> <<" ">>] }
    ELSE Replies

\* reply.startswith("Error:")
StartsWithError(reply) == StartsWith(reply.text, ErrorPrefix)

-----------------------------------------------------------------------------
(* Specification Spec: interpret (app.py) with correct_output *)

Init ==
    /\ fn = "app"
    /\ fin = <<>>
    /\ fstage = 0
    /\ fout = <<>>
    /\ fout2 = <<>>
    /\ AppIdle

DEFAULT_OUTPUT_FORMAT == "plaintext"

\* the except clause of interpret: an exception raised anywhere ends the
\* request with status 500
InternalServerError(type, where) ==
    /\ raised' = [type |-> type, in |-> where]
    /\ response' = [status |-> 500, body |-> <<"Internal Server Error: ", type>>]
    /\ pc' = "responded"

\* interpret up to the first await of the model client
Interpret(ctx) ==
    /\ pc = "ready"
    /\ context' = ctx
    /\ calls' = calls + 1
    /\ pc' = "await_llm"
    /\ UNCHANGED <<raw_llm_response, universal_representation,
                   transformed_output, expected_structure, validation_result,
                   error_corrector_output, corrector_transformed_output,
                   corrector_validation_result, last_error, attempt, prompt,
                   response, learning_data, log, raised>>

\* the bodies sent with a content type handle_user_request does not know
\* and no word that names a format: the format is asked of the model
DeductionPrompts == { <<"an", " ", "Array">> }

\* the replies to the format deduction prompt
DeductionReplies ==
    { [is_str |-> TRUE, transport |-> FALSE, text |-> a] :
        a \in { <<"XML", ",", " ", "JSON", ",", "HTML">>, <<"sorry">> } }
    \cup {Timeout, NonStringAnswer}

\* the first format of the ranked list that handle_user_request knows, or
\* "" when there is none
RECURSIVE DeducedFormat(_, _, _)
DeducedFormat(t, i, item) ==
    LET fmt == Strip(item)
        known == Len(fmt) = 1
                 /\ Lower(fmt[1]) \in {"json", "html", "python", "plaintext"}
    IN  IF i > Len(t) THEN (IF known THEN Lower(fmt[1]) ELSE "")
        ELSE IF t[i] # "," THEN DeducedFormat(t, i + 1, Append(item, t[i]))
        ELSE IF known THEN Lower(fmt[1])
        ELSE DeducedFormat(t, i + 1, <<>>)

\* handle_user_request up to its await of the model client: no format is
\* given and none is deduced from the words of the request
DeduceFormat(p) ==
    /\ pc = "ready"
    /\ context' = [NoContext EXCEPT !.prompt_text = p,
                                    !.output_intent = "code_with_explanation"]
    /\ calls' = calls + 1
    /\ pc' = "await_format"
    /\ UNCHANGED <<raw_llm_response, universal_representation,
                   transformed_output, expected_structure, validation_result,
                   error_corrector_output, corrector_transformed_output,
                   corrector_validation_result, last_error, attempt, prompt,
                   response, learning_data, log, raised>>

\* the rest of handle_user_request, from the reply to the deduction prompt,
\* and interpret up to the first await of the model client
ReceiveFormatDeduction(reply) ==
    \E deduced \in {IF StartsWithError(reply) THEN ""
                     ELSE DeducedFormat(reply.text, 1, <<>>)} :
        /\ pc = "await_format"
        /\ IF ~reply.is_str THEN
               /\ InternalServerError("AttributeError", "handle_user_request")
               /\ UNCHANGED <<context, calls>>
           ELSE
               /\ context' =
                     [context EXCEPT
                         !.llm_format_deduction_response = reply,
                         !.requested_format =
                             IF deduced = "" THEN DEFAULT_OUTPUT_FORMAT
                             ELSE deduced]
               /\ calls' = calls + 1
               /\ pc' = "await_llm"
               /\ UNCHANGED <<response, raised>>
        /\ UNCHANGED <<raw_llm_response, universal_representation,
                       transformed_output, expected_structure,
                       validation_result, error_corrector_output,
                       corrector_transformed_output,
                       corrector_validation_result, last_error, attempt,
                       prompt, learning_data, log>>

\* interpret from the first reply to the validation of the rendered text
ReceiveLlmResponse(reply) ==
    \E format \in {context.requested_format} :
    \E rep \in {ParseLlmOutput(reply.text, format, context)} :
    \E tr \in {Transform(rep, format, context)} :
    \E expected \in {ExpectedStructure(format, context)} :
    \E v \in {ValidateOutput(tr.text, format, expected)} :
        /\ pc = "await_llm"
        /\ raw_llm_response' = reply
        /\ IF ~reply.is_str THEN
               /\ InternalServerError("AttributeError", "interpret")
               /\ UNCHANGED <<universal_representation, transformed_output,
                              expected_structure, validation_result>>
           ELSE IF StartsWithError(reply) THEN
               /\ response' = [status |-> 502,
                               body |-> <<"LLM Error: ">> \o reply.text]
               /\ pc' = "responded"
               /\ UNCHANGED <<universal_representation, transformed_output,
                              expected_structure, validation_result, raised>>
           ELSE IF tr.raised THEN
               /\ universal_representation' = rep
               /\ InternalServerError("TypeError", "interpret")
               /\ UNCHANGED <<transformed_output, expected_structure,
                              validation_result>>
           ELSE
               /\ universal_representation' = rep
               /\ transformed_output' = tr.text
               /\ expected_structure' = expected
               /\ validation_result' = v
               /\ pc' = IF v.valid THEN "respond" ELSE "correct_output"
               /\ UNCHANGED <<response, raised>>
        /\ UNCHANGED <<context, error_corrector_output,
                       corrector_transformed_output,
                       corrector_validation_result, last_error, attempt,
                       prompt, learning_data, calls, log>>

\* correct_output up to its loop: the heuristic
CorrectOutput ==
    \E format \in {context.requested_format} :
    \E h \in {HeuristicCorrection(universal_representation, format)} :
    \E tr \in {Transform(h.rep, format, context)} :
    \E v \in {ValidateOutput(tr.text, format, "")} :
        /\ pc = "correct_output"
        /\ attempt' = 0
        /\ IF h.applied /\ tr.raised THEN
               /\ InternalServerError("TypeError", "correct_output")
               /\ UNCHANGED <<error_corrector_output,
                              corrector_transformed_output,
                              corrector_validation_result, last_error>>
           ELSE IF h.applied /\ v.valid THEN
               /\ corrector_transformed_output' = tr.text
               /\ error_corrector_output' = tr.text
               /\ pc' = "corrector_returned"
               /\ UNCHANGED <<corrector_validation_result, last_error,
                              response, raised>>
           ELSE
               /\ corrector_transformed_output' =
                      IF h.applied THEN tr.text ELSE <<>>
               /\ corrector_validation_result' =
                      IF h.applied THEN v ELSE validation_result
               /\ last_error' = IF h.applied THEN v.message
                                ELSE validation_result.message
               /\ pc' = "iterate"
               /\ UNCHANGED <<error_corrector_output, response, raised>>
        /\ UNCHANGED <<context, raw_llm_response, universal_representation,
                       transformed_output, expected_structure,
                       validation_result, prompt, learning_data, calls, log>>

\* a loop that goes on without regard to the number of attempts made
SendCorrectionPromptUnbounded ==
    /\ pc = "iterate"
    /\ prompt' = CorrectionPrompt(corrector_validation_result,
                                  raw_llm_response.text,
                                  context.requested_format, context)
    /\ calls' = calls + 1
    /\ pc' = "await_correction"
    /\ UNCHANGED <<context, raw_llm_response, universal_representation,
                   transformed_output, expected_structure, validation_result,
                   error_corrector_output, corrector_transformed_output,
                   corrector_validation_result, last_error, attempt, response,
                   learning_data, log, raised>>

\* one iteration of the loop up to its await of the model client
SendCorrectionPrompt ==
    /\ pc = "iterate"
    /\ attempt < ERROR_CORRECTION_RETRIES
    /\ prompt' = CorrectionPrompt(corrector_validation_result,
                                  raw_llm_response.text,
                                  context.requested_format, context)
    /\ calls' = calls + 1
    /\ pc' = "await_correction"
    /\ UNCHANGED <<context, raw_llm_response, universal_representation,
                   transformed_output, expected_structure, validation_result,
                   error_corrector_output, corrector_transformed_output,
                   corrector_validation_result, last_error, attempt, response,
                   learning_data, log, raised>>

\* the loop has run ERROR_CORRECTION_RETRIES times: return the best attempt
RetriesExhausted ==
    /\ pc = "iterate"
    /\ attempt = ERROR_CORRECTION_RETRIES
    /\ error_corrector_output' = corrector_transformed_output
    /\ pc' = "corrector_returned"
    /\ UNCHANGED <<context, raw_llm_response, universal_representation,
                   transformed_output, expected_structure, validation_result,
                   corrector_transformed_output, corrector_validation_result,
                   last_error, attempt, prompt, response, learning_data, calls,
                   log, raised>>

\* the rest of the iteration, from the reply of the model client
ReceiveCorrection(reply) ==
    \E format \in {context.requested_format} :
    \E rep \in {ParseLlmOutput(reply.text, format, context)} :
    \E tr \in {Transform(rep, format, context)} :
    \E expected \in {ExpectedStructure(format, context)} :
    \E v \in {ValidateOutput(tr.text, format, expected)} :
    \E entry \in {[failure |-> reply.transport, rendered |-> FALSE,
                   output |-> <<>>, valid |-> FALSE,
                   prompt |-> prompt, response |-> reply]} :
        /\ pc = "await_correction"
        /\ IF ~reply.is_str THEN
               /\ InternalServerError("AttributeError", "correct_output")
               /\ log' = Append(log, entry)
               /\ UNCHANGED <<error_corrector_output,
                              corrector_transformed_output,
                              corrector_validation_result, last_error, attempt>>
           ELSE IF StartsWithError(reply) THEN
               /\ error_corrector_output' = corrector_transformed_output
               /\ pc' = "corrector_returned"
               /\ log' = Append(log, entry)
               /\ UNCHANGED <<corrector_transformed_output,
                              corrector_validation_result, last_error, attempt,
                              response, raised>>
           ELSE IF tr.raised THEN
               /\ InternalServerError("TypeError", "correct_output")
               /\ log' = Append(log, entry)
               /\ UNCHANGED <<error_corrector_output,
                              corrector_transformed_output,
                              corrector_validation_result, last_error, attempt>>
           ELSE
               /\ corrector_transformed_output' = tr.text
               /\ corrector_validation_result' = v
               /\ log' = Append(log, [entry EXCEPT !.rendered = TRUE,
                                                   !.output = tr.text,
                                                   !.valid = v.valid])
               /\ IF CorrectionSucceeded(v) THEN
                      /\ error_corrector_output' = tr.text
                      /\ pc' = "corrector_returned"
                      /\ UNCHANGED <<last_error, attempt>>
                  ELSE
                      /\ last_error' = v.message
                      /\ attempt' = attempt + 1
                      /\ pc' = "iterate"
                      /\ UNCHANGED error_corrector_output
               /\ UNCHANGED <<response, raised>>
        /\ UNCHANGED <<context, raw_llm_response, universal_representation,
                       transformed_output, expected_structure,
                       validation_result, prompt, learning_data, calls>>

\* interpret after correct_output has returned: a result that is not empty
\* is validated again and, when valid, replaces the first rendering
AfterCorrection ==
    \E v \in {ValidateOutput(error_corrector_output, context.requested_format,
                             expected_structure)} :
        /\ pc = "corrector_returned"
        /\ IF Truthy(error_corrector_output) THEN
               /\ validation_result' = v
               /\ transformed_output' = IF v.valid THEN error_corrector_output
                                        ELSE transformed_output
           ELSE UNCHANGED <<validation_result, transformed_output>>
        /\ pc' = "respond"
        /\ UNCHANGED <<context, raw_llm_response, universal_representation,
                       expected_structure, error_corrector_output,
                       corrector_transformed_output,
                       corrector_validation_result, last_error, attempt,
                       prompt, response, learning_data, calls, log, raised>>

\* the body JSONResponse sends for the value a text parses to
JsonBody(text) == Loads(text).val

\* _apply_learning(interaction_data), rule 1: the confidence of the
\* structures the record holds is raised after a valid result and lowered
\* after an invalid one, in the record itself (in hundredths)
ApplyLearning(rec) ==
    [rec EXCEPT !.confidence = IF rec.valid
                               THEN (IF @ + 5 > 100 THEN 100 ELSE @ + 5)
                               ELSE (IF @ - 10 < 0 THEN 0 ELSE @ - 10)]

\* learner.learn_from_interaction(interaction_data), for the interaction
\* of one request: _log_interaction writes the file named by the second of
\* the clock, unless the write fails, which it survives; the record is
\* appended to learning_data; _apply_learning changes it.  The outcome
\* "raised" is an exception that leaves learn_from_interaction from
\* _apply_learning.
LearnFromInteraction(request, valid, outcome) ==
    \E rec \in {[request |-> request, confidence |-> 95, valid |-> valid]} :
        /\ log_dir' = IF outcome = "log_write_failed" THEN log_dir
                      ELSE (clock :> rec) @@ log_dir
        /\ learning_data' =
              Append(learning_data,
                     IF outcome = "raised" THEN rec ELSE ApplyLearning(rec))
        /\ written' =
              (request :> [record |-> rec,
                           logged |-> outcome # "log_write_failed"]) @@ written

\* interpret from the learner to the HTTP response
Respond(outcome) ==
    \E json \in {context.requested_format = "json"} :
    \E parses \in {Loads(transformed_output).ok} :
        /\ pc = "respond"
        /\ LearnFromInteraction(1, validation_result.valid, outcome)
        /\ IF outcome = "raised"
           THEN InternalServerError("Exception", "learn_from_interaction")
           ELSE
             /\ response' =
                  IF validation_result.valid THEN
                      IF json /\ ~parses
                      THEN [status |-> 500,
                            body |-> <<"Error: Internal JSON encoding problem after validation.">>]
                      ELSE [status |-> 200,
                            body |-> IF json THEN JsonBody(transformed_output)
                                     ELSE transformed_output]
                  ELSE
                      IF json /\ ~parses
                      THEN [status |-> 500,
                            body |-> <<"Error: Final output was not valid JSON and could not be parsed.">>]
                      ELSE [status |-> 500,
                            body |-> IF json THEN JsonBody(transformed_output)
                                     ELSE transformed_output]
             /\ pc' = "responded"
             /\ UNCHANGED raised
        /\ UNCHANGED <<context, raw_llm_response, universal_representation,
                       transformed_output, expected_structure,
                       validation_result, error_corrector_output,
                       corrector_transformed_output,
                       corrector_validation_result, last_error, attempt,
                       prompt, calls, log, clock>>

\* interpret when handle_user_request reports an error in the context, or
\* raises (it reads intent, which no branch has set, for a body sent as
\* application/xml)
RejectRequest(error) ==
    /\ pc = "ready"
    /\ IF error = "UnboundLocalError"
       THEN /\ InternalServerError("UnboundLocalError", "handle_user_request")
            /\ UNCHANGED context
       ELSE /\ context' = [NoContext EXCEPT !.error = error]
            /\ response' =
                  [status |-> 400,
                   body |-> IF error = "Missing question in JSON request"
                            THEN <<"Error: The question is missing from your request.">>
                            ELSE IF error = "Invalid JSON"
                            THEN <<"Error: Invalid JSON provided in request. ", error>>
                            ELSE <<"Error in request processing: ", error>>]
            /\ pc' = "responded"
            /\ UNCHANGED raised
    /\ UNCHANGED <<raw_llm_response, universal_representation,
                   transformed_output, expected_structure, validation_result,
                   error_corrector_output, corrector_transformed_output,
                   corrector_validation_result, last_error, attempt, prompt,
                   learning_data, calls, log>>

Next ==
    \/ \E ctx \in Contexts : Interpret(ctx) /\ UNCHANGED <<fnVars, sinkVars>>
    \/ \E p \in DeductionPrompts :
           DeduceFormat(p) /\ UNCHANGED <<fnVars, sinkVars>>
    \/ \E reply \in DeductionReplies :
           ReceiveFormatDeduction(reply) /\ UNCHANGED <<fnVars, sinkVars>>
    \/ \E reply \in RepliesTo(context.requested_format) :
           ReceiveLlmResponse(reply) /\ UNCHANGED <<fnVars, sinkVars>>
    \/ CorrectOutput /\ UNCHANGED <<fnVars, sinkVars>>
    \/ SendCorrectionPrompt /\ UNCHANGED <<fnVars, sinkVars>>
    \/ RetriesExhausted /\ UNCHANGED <<fnVars, sinkVars>>
    \/ \E reply \in RepliesTo(context.requested_format) :
           ReceiveCorrection(reply) /\ UNCHANGED <<fnVars, sinkVars>>
    \/ AfterCorrection /\ UNCHANGED <<fnVars, sinkVars>>
    \/ \E outcome \in {"ok", "log_write_failed", "raised"} :
           Respond(outcome) /\ UNCHANGED fnVars
    \/ \E error \in {"Missing question in JSON request", "Invalid JSON",
                      "Error parsing form data", "Error parsing request",
                      "UnboundLocalError"} :
           RejectRequest(error) /\ UNCHANGED <<fnVars, sinkVars>>

Spec == Init /\ [][Next]_vars

-----------------------------------------------------------------------------
(* Specification SpecCorrector: correct_output called with any               *)
(* representation, and with the report the validator gives on any rendered   *)
(* text that is not valid                                                    *)

InitCorrector ==
    /\ fn = "correct_output"
    /\ fstage = 0
    /\ fout = <<>>
    /\ fout2 = <<>>
    /\ pc = "correct_output"
    /\ context \in
          { [requested_format |-> f, prompt_text |-> p, output_intent |-> i,
             input_json_type |-> "", error |-> ""] :
              f \in {"json", "html", "python", "java"},
              p \in { <<"list", " ", "users">>, <<"an", " ", "Array">> },
              i \in {"code_only", "code_with_explanation"} }
    /\ context.requested_format # "json"
          => context.prompt_text = <<"list", " ", "users">>
    /\ raw_llm_response = [is_str |-> TRUE, transport |-> FALSE,
                           text |-> <<"sorry">>]
    /\ universal_representation \in
          { [EmptyRepresentation EXCEPT !.text_content = t] :
              t \in { None, <<"sorry">>, Arr1, <<"{", "x", "}">>,
                      <<" ">> \o ObjA \o <<"\n">> } }
    /\ context.requested_format # "json"
          => universal_representation.text_content
                \in { <<"sorry">>, <<" ">> \o ObjA \o <<"\n">> }
    /\ transformed_output \in { <<"sorry">>, ObjA, <<"no", " ", "code">> }
    /\ transformed_output = <<"no", " ", "code">>
          <=> context.requested_format # "json"
    /\ expected_structure =
           ExpectedStructure(context.requested_format, context)
    /\ validation_result =
           ValidateOutput(transformed_output, context.requested_format,
                          expected_structure)
    /\ ~validation_result.valid
    /\ fin = universal_representation
    /\ error_corrector_output = None
    /\ corrector_transformed_output = <<>>
    /\ corrector_validation_result = Valid
    /\ last_error = <<>>
    /\ attempt = 0
    /\ prompt = NoPrompt
    /\ response = NoResponse
    /\ learning_data = <<>>
    /\ calls = 0
    /\ log = <<>>
    /\ raised = NoException
    /\ clock = 0
    /\ log_dir = <<>>
    /\ written = <<>>

\* for json the model also answers with an array of objects
NextCorrector ==
    \/ CorrectOutput /\ UNCHANGED <<fnVars, sinkVars>>
    \/ SendCorrectionPrompt /\ UNCHANGED <<fnVars, sinkVars>>
    \/ RetriesExhausted /\ UNCHANGED <<fnVars, sinkVars>>
    \/ \E reply \in RepliesTo(context.requested_format)
                     \cup (IF context.requested_format = "json"
                           THEN {[is_str |-> TRUE, transport |-> FALSE,
                                  text |-> <<"[">> \o ObjA \o <<"]">>]}
                           ELSE {}) :
           ReceiveCorrection(reply) /\ UNCHANGED <<fnVars, sinkVars>>

SpecCorrector == InitCorrector /\ [][NextCorrector]_vars

\* C16: the prompt of each iteration is chosen by the requested format
\* and the error kind of the report of the validation before it: for json
\* a decode error gives the syntax-error template with line and column, a
\* structure error the template that names the container expected; html
\* structure errors and python syntax errors give their templates; any
\* other pair gives the general prompt with the last error message; and
\* the prompt asks for code only exactly when the intent is code_only.
C16_PromptByFormatAndError ==
    pc = "await_correction" =>
        LET v == corrector_validation_result
            f == context.requested_format
        IN  /\ prompt.code_only = (context.output_intent = "code_only")
            /\ IF f = "json" /\ v.error_type = "JSONDecodeError"
               THEN /\ prompt.template =
                          "intended to be JSON, but it contains a syntax error"
                    /\ prompt.hints = {"line", "column"}
                    /\ prompt.message = last_error
               ELSE IF f = "json" /\ v.error_type = "JSONStructureError"
               THEN prompt.template =
                       IF ExpectedStructure(f, context) = "array"
                       THEN "intended to be a JSON array, but it was a JSON object"
                       ELSE "intended to be a JSON object, but it was a JSON array"
               ELSE IF f = "html" /\ v.error_type = "HTMLStructureError"
               THEN /\ prompt.template =
                          "intended to be HTML, but its structure is invalid"
                    /\ prompt.message = last_error
               ELSE IF f = "python" /\ v.error_type = "PythonSyntaxError"
               THEN /\ prompt.template =
                          "intended to be Python code, but it contains a syntax error"
                    /\ prompt.hints = {"line", "offset"}
                    /\ prompt.message = last_error
               ELSE /\ prompt.template =
                          "supposed to be in " \o f \o " format, but it was invalid"
                    /\ prompt.error_type = v.error_type
                    /\ prompt.message = last_error

\* the prompt for a json decode error has been sent for a code_only request
C16_Witness ==
    /\ fn = "correct_output"
    /\ pc = "await_correction"
    /\ context.requested_format = "json"
    /\ context.output_intent = "code_only"
    /\ corrector_validation_result.error_type = "JSONDecodeError"
    /\ prompt.code_only

\* _heuristic_correction has something to correct: the format is json and
\* the trimmed text is a complete {...} literal that parses
HeuristicApplies(rep, format) ==
    /\ format = "json"
    /\ rep.text_content # None
    /\ Strip(rep.text_content) # <<>>
    /\ Head(Strip(rep.text_content)) = "{"
    /\ Strip(rep.text_content)[Len(Strip(rep.text_content))] = "}"
    /\ Loads(Strip(rep.text_content)).ok

\* C17: the heuristic runs once, before any call of the client: where it
\* stands no call has been made, and control never comes back to it; when
\* it applies (json, a complete literal that parses) and its rendering
\* validates, correct_output returns that rendering with no call; in every
\* other case the loop starts at its first attempt, and correct_output
\* cannot return without a call; the representation it was given is not
\* changed.
C17_HeuristicOnceBeforeCalls ==
    fn = "correct_output" =>
        /\ pc = "correct_output" => calls = 0 /\ attempt = 0 /\ log = <<>>
        /\ universal_representation = fin
        /\ pc # "correct_output" =>
              IF HeuristicApplies(fin, context.requested_format)
              THEN /\ pc = "corrector_returned"
                   /\ calls = 0
                   /\ Loads(error_corrector_output).val
                          = Loads(Strip(fin.text_content)).val
              ELSE /\ calls = 0 => pc = "iterate" /\ attempt = 0
                   /\ pc = "corrector_returned" => calls >= 1

\* correct_output has returned the rendering of the literal without a call
C17_Witness ==
    /\ fn = "correct_output"
    /\ pc = "corrector_returned"
    /\ calls = 0
    /\ fin.text_content = <<" ">> \o ObjA \o <<"\n">>
    /\ error_corrector_output = Strip(Dumps(ObjA))

-----------------------------------------------------------------------------
(* Properties of correct_output, checked under Spec *)

Last(l) == l[Len(l)]

\* the calls of the model client a request makes before correct_output: the
\* initial prompt, and the format deduction when it was needed
CallsBeforeCorrector ==
    IF context.llm_format_deduction_response = NoReply THEN 1 ELSE 2

\* correct_output has returned and interpret has not yet gone on
CorrectorReturned == pc = "corrector_returned"

\* the text correct_output was last seen to render: in the latest attempt
\* that rendered one, or else the rendering it was called to correct
RenderedAttempts == { i \in 1..Len(log) : log[i].rendered }

LastRenderedOutput ==
    IF RenderedAttempts = {} THEN transformed_output
    ELSE log[CHOOSE i \in RenderedAttempts :
                 \A j \in RenderedAttempts : j <= i].output

\* C1: when no call of the model client fails and no attempt validates,
\* correct_output calls the client exactly ERROR_CORRECTION_RETRIES times and
\* returns the text rendered in the last attempt.
C1_ExhaustsBudget ==
    (/\ CorrectorReturned
     /\ \A i \in 1..Len(log) : ~log[i].failure /\ ~log[i].valid)
    => /\ Len(log) = ERROR_CORRECTION_RETRIES
       /\ calls = CallsBeforeCorrector + ERROR_CORRECTION_RETRIES
       /\ Last(log).rendered
       /\ error_corrector_output = Last(log).output

\* C2: the attempt whose rendered output validates is the last one:
\* correct_output returns that output at once, after exactly as many calls of
\* the model client as there were attempts.
C2_StopsAtFirstValid ==
    /\ \A i \in 1..(Len(log) - 1) : ~log[i].valid
    /\ (log # <<>> /\ Last(log).valid)
       => /\ pc \notin {"iterate", "await_correction"}
          /\ error_corrector_output = Last(log).output
          /\ attempt = Len(log) - 1
          /\ calls = CallsBeforeCorrector + Len(log)

C2_Witness ==
    /\ CorrectorReturned
    /\ Len(log) = 3
    /\ Last(log).valid
    /\ error_corrector_output = Last(log).output

\* C3: when the model client reports a transport failure at an attempt,
\* correct_output makes no further call and returns the last output that
\* was rendered, also when the failing attempt is the first.
C3_AbortReturnsLastRendered ==
    (CorrectorReturned /\ log # <<>> /\ Last(log).failure)
    => /\ calls = CallsBeforeCorrector + Len(log)
       /\ error_corrector_output = LastRenderedOutput

\* C4: correct_output never raises.
C4_NeverRaises == raised.in # "correct_output"

\* C5: parse_llm_output and the renderer never raise, whatever the format
\* and the intent.
C5_NormalizerTransformerNeverRaise == raised.type # "TypeError"

\* the kinds a structure message of validate_json names
NamedKinds(message) ==
    IF message = <<"Expected a JSON array, but got a JSON object.">>
    THEN [expected |-> "array", actual |-> "object"]
    ELSE IF message = <<"Expected a JSON object, but got a JSON array.">>
    THEN [expected |-> "object", actual |-> "array"]
    ELSE [expected |-> "", actual |-> ""]

\* validation_result is the verdict of validate_output on transformed_output
JustValidated ==
    \/ pc = "correct_output"
    \/ pc = "respond" /\ error_corrector_output = None

\* C9: for json, a text that parses to a value whose kind differs from the
\* expected kind is Invalid with JSONStructureError and a message naming the
\* expected and the actual kind; a text that parses is Valid otherwise.
C9_MismatchNamesKinds ==
    (context.requested_format = "json" /\ JustValidated
     /\ Loads(transformed_output).ok)
    => LET value == PyValue(Loads(transformed_output).val)
           kind == IF value = None THEN "null" ELSE JsonKind(value)
       IN  IF expected_structure # "" /\ kind # expected_structure
           THEN /\ ~validation_result.valid
                /\ validation_result.error_type = "JSONStructureError"
                /\ NamedKinds(validation_result.message) =
                       [expected |-> expected_structure, actual |-> kind]
           ELSE validation_result = Valid

\* the kinds the caller expects: the one interpret derives from the
\* instruction text, and the one of the input profile
CallerExpectedKinds == {expected_structure, context.input_json_type} \ {""}

\* C10: for json, when a value is extracted, the representation carries
\* error = IncorrectJSONStructure exactly when the kind of the value
\* disagrees with the kind the caller expects (with some expected kind if it
\* is set, with every expected kind if it is not), and json_fields is the value.
C10_FlagIffKindsDisagree ==
    (/\ context.requested_format = "json"
     /\ pc \in {"correct_output", "respond"}
     /\ error_corrector_output = None
     /\ ExtractAndParseJson(Cleanup(raw_llm_response.text)) # None)
    => LET extracted == ExtractAndParseJson(Cleanup(raw_llm_response.text))
       IN  /\ universal_representation.json_fields = extracted
           /\ IF universal_representation.error = "IncorrectJSONStructure"
              THEN \E k \in CallerExpectedKinds : k # JsonKind(extracted)
              ELSE \E k \in CallerExpectedKinds \cup {JsonKind(extracted)} :
                      k = JsonKind(extracted)

-----------------------------------------------------------------------------
(* Properties of the python and html requests, checked under Spec *)

\* the first reply has come as a text that is not a client failure
FirstReplyParsed ==
    /\ fn = "app"
    /\ pc \notin {"ready", "await_format", "await_llm"}
    /\ context.error = ""
    /\ raised.in # "handle_user_request"
    /\ raw_llm_response.is_str
    /\ ~StartsWithError(raw_llm_response)

\* the response holds neither a fenced region nor an indented line
NoCodeInResponse ==
    /\ NextFence(raw_llm_response.text, 1) = 0
    /\ \A k \in 1..Len(SplitLines(raw_llm_response.text, 1, <<>>)) :
           ~IndentedLine(SplitLines(raw_llm_response.text, 1, <<>>)[k]).matches

-----------------------------------------------------------------------------
(* Properties of the response of interpret, checked under Spec *)

\* C18: every outcome has its status: an error of handle_user_request 400,
\* a transport error of the first call 502, an exception 500, a final
\* output that is not valid 500, a valid one 200; and the body of the
\* response is never empty.
C18_StatusAndBodyForEveryOutcome ==
    (fn = "app" /\ pc = "responded") =>
        /\ context.error # "" => response.status = 400
        /\ raw_llm_response.transport => response.status = 502
        /\ raised.type # "" => response.status = 500
        /\ (/\ context.error = ""
            /\ raised.type = ""
            /\ ~StartsWithError(raw_llm_response))
           => response.status = IF validation_result.valid THEN 200 ELSE 500
        /\ response.body # <<>>

\* C19: the response does not depend on the outcome of
\* learn_from_interaction: once the learner has been called, the status
\* and the body are those that the validation result and the rendered text
\* of the request determine.
C19_ResponseIndependentOfSink ==
    (fn = "app" /\ pc = "responded" /\ written # <<>>) =>
        /\ response.status = IF validation_result.valid THEN 200 ELSE 500
        /\ response.body =
              IF context.requested_format = "json"
              THEN JsonBody(transformed_output)
              ELSE transformed_output

-----------------------------------------------------------------------------
(* Specification SpecSink: the learner of one process as several requests    *)
(* complete, some within the same second of the clock                        *)

MaxClock == 2
MaxRequests == 3

InitSink ==
    /\ fn = "learner"
    /\ fin = <<>>
    /\ fstage = 0
    /\ fout = <<>>
    /\ fout2 = <<>>
    /\ AppIdle

\* a second passes
Tick ==
    /\ fn = "learner"
    /\ clock < MaxClock
    /\ clock' = clock + 1
    /\ UNCHANGED <<fnVars, appVars, log_dir, written>>

\* a request completes: interpret calls learner.learn_from_interaction,
\* which has no await in it and so runs from start to end
CompleteRequest(request, valid, outcome) ==
    /\ fn = "learner"
    /\ request \notin DOMAIN written
    /\ LearnFromInteraction(request, valid, outcome)
    /\ UNCHANGED <<fnVars, pc, context, raw_llm_response,
                   universal_representation, transformed_output,
                   expected_structure, validation_result,
                   error_corrector_output, corrector_transformed_output,
                   corrector_validation_result, last_error, attempt, prompt,
                   response, calls, log, raised, clock>>

NextSink ==
    \/ Tick
    \/ \E request \in 1..MaxRequests, valid \in BOOLEAN,
          outcome \in {"ok", "log_write_failed"} :
           CompleteRequest(request, valid, outcome)

SpecSink == InitSink /\ [][NextSink]_vars

\* C20: the log holds one record for each completed request whose record
\* was written, the record as it was written: no write takes the place of
\* the record of another request, and no record of learning_data differs
\* from what it was when it was written.
C20_OneUnchangedRecordPerRequest ==
    fn = "learner" =>
        /\ \A r \in DOMAIN written :
              written[r].logged =>
                  \E t \in DOMAIN log_dir : log_dir[t] = written[r].record
        /\ \A k \in 1..Len(learning_data) :
              learning_data[k] = written[learning_data[k].request].record

-----------------------------------------------------------------------------
(* Properties of the calls of the model client, checked under Spec *)

\* a call of the model client is awaited
AwaitingModel == pc \in {"await_format", "await_llm", "await_correction"}

\* what the first validation of interpret returns for the first reply
FirstValidation ==
    LET f == context.requested_format
        rep == ParseLlmOutput(raw_llm_response.text, f, context)
    IN  ValidateOutput(Transform(rep, f, context).text, f,
                       ExpectedStructure(f, context))

\* correct_output has been entered
CorrectorEntered ==
    \/ pc \in {"correct_output", "iterate", "await_correction",
               "corrector_returned"}
    \/ log # <<>>
    \/ error_corrector_output # None
    \/ raised.in = "correct_output"

\* the calls made for the format deduction, for the initial prompt and by
\* the iterations of correct_output
DeductionCalls ==
    IF \/ pc = "await_format"
       \/ context.llm_format_deduction_response # NoReply
       \/ raised = [type |-> "AttributeError", in |-> "handle_user_request"]
    THEN 1 ELSE 0

InitialCalls ==
    IF \/ pc \in {"ready", "await_format"}
       \/ context.error # ""
       \/ raised.in = "handle_user_request"
    THEN 0 ELSE 1

CorrectionCalls == Len(log) + (IF pc = "await_correction" THEN 1 ELSE 0)

\* C21: a request calls the model client for the format deduction at most
\* once, for the initial prompt at most once and once for each iteration of
\* correct_output, each call after the reply to the one before it; so it
\* makes at most ERROR_CORRECTION_RETRIES + 2 calls; and correct_output is
\* entered, and a correction call made, only when the first validation
\* returned Invalid.
C21_CallsOneAfterAnotherAndBounded ==
    /\ [](fn = "app" =>
            /\ calls <= ERROR_CORRECTION_RETRIES + 2
            /\ calls = DeductionCalls + InitialCalls + CorrectionCalls
            /\ DeductionCalls <= 1 /\ InitialCalls <= 1
            /\ Len(log) <= ERROR_CORRECTION_RETRIES
            /\ CorrectorEntered => ~FirstValidation.valid)
    /\ [][fn = "app" /\ calls' # calls =>
              /\ calls' = calls + 1
              /\ ~AwaitingModel \/ pc = "await_format"
              /\ AwaitingModel']_vars

\* a request whose format the model deduced has used the whole budget
C21_Witness ==
    /\ fn = "app"
    /\ context.llm_format_deduction_response # NoReply
    /\ calls = ERROR_CORRECTION_RETRIES + 2
    /\ pc = "responded"
    /\ Len(log) = ERROR_CORRECTION_RETRIES

-----------------------------------------------------------------------------
(* Properties of the successful returns of correct_output, checked under     *)
(* SpecCorrector                                                             *)

\* correct_output has returned through a successful validation: that of the
\* heuristic, before any call, or that of the last attempt
ReturnedThroughValidation ==
    /\ fn = "correct_output"
    /\ pc = "corrector_returned"
    /\ log = <<>> \/ Last(log).valid

\* C24: in a run for json with the expected container array, an attempt
\* whose response is a well-formed JSON array renders that array, validates,
\* and is the attempt at which correct_output returns.
C24_ArrayResponseSucceeds ==
    (/\ fn = "correct_output"
     /\ context.requested_format = "json"
     /\ ExpectedStructure("json", context) = "array")
    => \A i \in 1..Len(log) :
           (/\ Loads(log[i].response.text).ok
            /\ IsList(Loads(log[i].response.text).val))
           => /\ log[i].rendered
              /\ Loads(log[i].output).val = Loads(log[i].response.text).val
              /\ log[i].valid
              /\ i = Len(log)
              /\ pc = "corrector_returned"
              /\ error_corrector_output = log[i].output

\* C22: a text that correct_output returns through a successful
\* validation, of the heuristic or of an attempt, is Valid for the format
\* and the container expected by the instruction text.
C22_SuccessIsValidForExpectedContainer ==
    ReturnedThroughValidation =>
        ValidateOutput(error_corrector_output, context.requested_format,
                       ExpectedStructure(context.requested_format, context)).valid

-----------------------------------------------------------------------------
(* Properties of the json requests, checked under Spec *)

-----------------------------------------------------------------------------
(* Properties of the correction prompts of a request, checked under Spec *)

\* the prompts sent so far, one for each attempt
PromptsSent ==
    [i \in 1..Len(log) |-> log[i].prompt]
    \o (IF pc = "await_correction" THEN <<prompt>> ELSE <<>>)

\* C25: the prompt of attempt 1 embeds, as the previous response, the
\* first response of the model; the prompt of attempt k > 1 embeds the
\* response of attempt k - 1, whose validation report it cites.
C25_PromptEmbedsPreviousResponse ==
    fn = "app" =>
        \A k \in 1..Len(PromptsSent) :
            PromptsSent[k].previous_response =
                IF k = 1 THEN raw_llm_response.text
                ELSE log[k - 1].response.text

\* C26: the loop of correct_output ends before its budget is used up only
\* after an attempt that validated or a transport failure of the model
\* client; every response the client delivered is parsed, rendered and
\* validated, whatever its text.
C26_DeliveredResponseIsValidated ==
    fn = "app" =>
        /\ \A i \in 1..Len(log) :
              (log[i].response.is_str /\ ~log[i].failure) => log[i].rendered
        /\ (/\ CorrectorReturned
            /\ log # <<>>
            /\ Len(log) < ERROR_CORRECTION_RETRIES)
           => Last(log).valid \/ Last(log).failure

-----------------------------------------------------------------------------
(* Properties of the end of a request, checked under Spec *)

\* C27: when interpret hands the interaction to the learner and chooses
\* the status, validation_result is the report of validate_output on
\* transformed_output, the text that is recorded and served, also after a
\* run of correct_output that ended without a valid output.
C27_ReportIsOfServedText ==
    (fn = "app" /\ pc = "respond")
    => validation_result =
           ValidateOutput(transformed_output, context.requested_format,
                          expected_structure)

\* C28: for a format TRANSFORMER_MAP has a renderer for, validate_output
\* never reports UnknownFormat, neither in interpret nor in correct_output
\* (a report that no text of the model can turn into Valid).
C28_RenderedFormatsAreValidated ==
    (fn = "app" /\ context.requested_format \in TRANSFORMER_MAP)
    => /\ validation_result.error_type # "UnknownFormat"
       /\ corrector_validation_result.error_type # "UnknownFormat"

-----------------------------------------------------------------------------
(* Properties of parse_llm_output for python, checked under Spec *)

\* C29: for python, a response whose code stands in one fenced region
\* gives a fragment list of one fragment, the content of the region with
\* all its lines; the fence is still in the text that _extract_python_code
\* is given.
C29_FencedBlockIsTheFragment ==
    (/\ FirstReplyParsed
     /\ context.requested_format = "python"
     /\ Len(FencedRegions(raw_llm_response.text, 1)) = 1)
    => /\ universal_representation.code_snippets
             = FencedRegions(raw_llm_response.text, 1)
       /\ NextFence(Cleanup(raw_llm_response.text), 1) # 0

-----------------------------------------------------------------------------
(* Properties of the heuristic within a request, checked under Spec *)

\* C30: the heuristic of correct_output can act on a request: among the
\* responses the model can give to a json request there is one whose
\* representation, as parse_llm_output builds it, has a text_content that
\* _heuristic_correction accepts.
C30_HeuristicReachableFromPipeline ==
    (fn = "app" /\ pc = "ready") =>
        \E ctx \in Contexts :
        \E text \in Concats({ ObjA, Arr1, <<"{">>, <<"}">>, <<" ">>, <<"\n">>,
                              <<"x", " ">>, Fence, <<"json">> },
                            MaxExtractSegments) :
            /\ ctx.requested_format = "json"
            /\ HeuristicApplies(ParseLlmOutput(text, "json", ctx), "json")

====
